---------------------------- MODULE Spec2Model ----------------------------
(***************************************************************************)
(* A model of the world-generation pipeline's graph services and of the    *)
(* world time service:                                                     *)
(*   - TimeSystem / World.tick / calculateGameTime  (SpecTime, SpecCalendar)*)
(*   - RoadPathfinder.buildGraph / shortestPath      (SpecPathfinder)      *)
(*   - SettlementClassifier.classify                 (SpecClassifier)      *)
(*   - RoadGenerator.generate                        (SpecRoads)           *)
(*   - RoadPathfinder.buildPointPath, travel queries (SpecTravel)          *)
(*   - saving and loading a world                    (SpecSave, SpecForeign)*)
(*   - SettlementGenerator.labelIslands              (SpecIslands)         *)
(*   - SettlementGenerator.generate                  (SpecPlacement)       *)
(*   - World.start / pause around the game loop      (SpecLoop)            *)
(*   - the order of the steps of a world build       (SpecBuild)           *)
(*   - travel over roads that join a pair twice      (SpecRoute)           *)
(*   - PlayerLayer and MapGenerator.moveToSettlement (SpecMove)            *)
(*   - RoadSerializer.serialize on any road list     (SpecSerialize)       *)
(*   - RoadGenerator.generate, settlements sharing a grid cell (SpecCells) *)
(*   - the flow accumulation of an erosion pass      (SpecErosion)         *)
(* Times are integer milliseconds; days are integers.                      *)
(***************************************************************************)
EXTENDS Integers, Sequences, FiniteSets, TLC

VARIABLES
    \* ---- TimeSystem fields (src/world/systems/TimeSystem.ts) ----
    totalDays,          \* TimeSystem.totalDays
    timeSpeed,          \* TimeSystem.timeSpeed
    lastUpdateTime,     \* TimeSystem.lastUpdateTime (0 = unset)
    accumulatedTime,    \* TimeSystem.accumulatedTime
    isRunning,          \* World.isRunning
    obs,                \* history of the calls made to the time service
    \* ---- calculateGameTime ----
    calInput,           \* the totalDays handed to calculateGameTime
    calResult,          \* the GameTime it returned, or NoTime
    \* ---- RoadPathfinder (buildGraph, shortestPath) ----
    pfRoads,            \* the road list handed to buildGraph
    pfGraph,            \* the RoadGraph it built
    pf,                 \* shortestPath's locals: start, end, dist, prev, visited, heap
    \* ---- SettlementClassifier.classify ----
    clsSettlements,     \* the settlement list (suitability and the four annotations)
    clsRoads,           \* the road list, as the set of its {aIndex, bIndex} pairs
    clsConfig,          \* { ...DEFAULTS, ...options }
    cls,                \* classify's locals: sorted, targetCities, cityIndices, position
    \* ---- RoadGenerator.generate ----
    genSettlements,     \* the settlement list (x, y)
    genOptions,         \* the options, defaults filled in
    gen,                \* generate's locals: mstEdges, sortedCandidates, seen, roads, adjacency
    \* ---- save and load (createSavePayload, loadFromSave, RoadSerializer) ----
    sav,                \* the world, the record store and the outcome of the last load
    \* ---- SettlementGenerator.labelIslands ----
    isl,                \* labelIslands' locals: islandIds, islandAreas, stack, scan position
    \* ---- SettlementGenerator.generate ----
    place,              \* generate's locals: settlements, spatialIndex, scan position
    \* ---- MapGenerator.initialize ----
    build,              \* the steps of the build carried out so far
    \* ---- World.start / pause around the game loop ----
    stop,               \* history of the stops and restarts of the world
    \* ---- PlayerLayer and MapGenerator.moveToSettlement ----
    mv,                 \* the marker, its movement driver and the travel requests made
    \* ---- HeightmapGenerator.applyFlowBasedErosion ----
    ero,                \* one pass: heights, flowDirection, order, flow, position
    \* ---- RoadSerializer.serialize ----
    ser                 \* a road list and what serialize made of it

timeVars == <<totalDays, timeSpeed, lastUpdateTime, accumulatedTime, isRunning, obs>>
calVars  == <<calInput, calResult>>
pathVars == <<pfRoads, pfGraph, pf>>
clsVars  == <<clsSettlements, clsRoads, clsConfig, cls>>
genVars  == <<genSettlements, genOptions, gen>>
vars     == <<timeVars, calVars, pathVars, clsVars, genVars, sav, isl, place, build, stop, mv, ero, ser>>

notTimeVars  == <<calVars, pathVars, clsVars, genVars, sav, isl, place, build, stop, mv, ero, ser>>
notCalVars   == <<timeVars, pathVars, clsVars, genVars, sav, isl, place, build, stop, mv, ero, ser>>
notPathVars  == <<timeVars, calVars, clsVars, genVars, sav, isl, place, build, stop, mv, ero, ser>>
notClsVars   == <<timeVars, calVars, pathVars, genVars, sav, isl, place, build, stop, mv, ero, ser>>
notGenVars   == <<timeVars, calVars, pathVars, clsVars, sav, isl, place, build, stop, mv, ero, ser>>
notSavVars   == <<timeVars, calVars, pathVars, clsVars, genVars, isl, place, build, stop, mv, ero, ser>>
notIslVars   == <<timeVars, calVars, pathVars, clsVars, genVars, sav, place, build, stop, mv, ero, ser>>
notPlaceVars == <<timeVars, calVars, pathVars, clsVars, genVars, sav, isl, build, stop, mv, ero, ser>>
notBuildVars == <<timeVars, calVars, pathVars, clsVars, genVars, sav, isl, place, stop, mv, ero, ser>>

----------------------------------------------------------------------------
(* Bounds of the model *)

MaxStamp    == 6    \* timestamps are 0, 250, ..., 250 * MaxStamp ms
MaxTicks    == 3    \* ticks processed between two fresh starts
MaxLoadDays == 1    \* totalDays of a loaded / reset state is 0..MaxLoadDays
MaxCalDays  == 1900 \* calculateGameTime is applied to 0..MaxCalDays
PathNodes   == 3    \* road graphs of the path service have up to PathNodes settlements
MaxRoads    == 3    \* ... and up to MaxRoads roads
MaxWeight   == 2    \* ... of length 0..MaxWeight
MaxHops     == 2    \* buildPointPath is given node sequences of up to MaxHops hops
ClsNodes    == 4    \* the classifier sees up to ClsNodes settlements
MaxSuit     == 1    \* ... of suitability k / MaxSuit, k in 0..MaxSuit
MaxClsRoads == 3    \* ... joined by up to MaxClsRoads roads
GenNodes    == 4    \* generate is given up to GenNodes settlements
MaxRelief   == 1    \* ... on a map at height 0.5 but for up to MaxRelief cells
SavNodes    == 2    \* a saved world has up to SavNodes settlements, in a row
MaxSavDays  == 1    \* ... and is saved or loaded on day 0..MaxSavDays
MaxLostBytes == 4   \* a truncated buffer has lost 1..MaxLostBytes bytes
MaxForeign  == 1    \* the record store takes up to MaxForeign records from elsewhere
MaxPlaced   == 3    \* the settlement sampling stops at MaxPlaced settlements, or at 800
MaxPasses   == 3    \* a heightmap config asks for 0..MaxPasses erosion passes, or for 100
MoveNodes   == 3    \* the marker travels among MoveNodes settlements in a row
MaxRequests == 3    \* ... on up to MaxRequests travel requests
MaxSerRoads == 3    \* serialize alone is given lists of up to MaxSerRoads roads
MaxCellNodes == 3   \* up to MaxCellNodes settlements stand on pixels that may share a grid cell
MaxLevel    == 2    \* an erosion pass is given heights 0..MaxLevel

Stamps == {250 * k : k \in 0..MaxStamp}

----------------------------------------------------------------------------
(* TimeSpeed, TIME_CONSTANTS *)

PAUSED    == 0
NORMAL    == 1
FAST      == 2
VERY_FAST == 4
TimeSpeeds == {PAUSED, NORMAL, FAST, VERY_FAST}

DAYS_PER_MONTH  == 28
MONTHS_PER_YEAR == 13
DAYS_PER_WEEK   == 7
DAYS_PER_YEAR   == 365
LEAP_YEAR_CYCLE == 4

----------------------------------------------------------------------------
(* calculateGameTime *)

NoTime == [year |-> 0, month |-> 0, day |-> 0, weekday |-> 0,
           specialDay |-> "none", totalDays |-> -1]

isLeapYearOffByOne(year) == year % LEAP_YEAR_CYCLE = 1

isLeapYear(year) == year % LEAP_YEAR_CYCLE = 0

getDaysInYear(year) ==
    IF isLeapYear(year) THEN DAYS_PER_YEAR + 1 ELSE DAYS_PER_YEAR

\* the while (true) loop: the year that holds `remainingDays`, and the day in it
RECURSIVE FindYear(_, _)
FindYear(remainingDays, year) ==
    IF remainingDays < getDaysInYear(year)
    THEN [year |-> year, dayOfYear |-> remainingDays]
    ELSE FindYear(remainingDays - getDaysInYear(year), year + 1)

calculateGameTime(days) ==
    LET found == FindYear(days, 1)
        year == found.year
        dayOfYear == found.dayOfYear
        regularMonthDays == MONTHS_PER_YEAR * DAYS_PER_MONTH
        isCurrentYearLeap == isLeapYear(year)
    IN  IF dayOfYear = regularMonthDays /\ isCurrentYearLeap
        THEN [year |-> year, month |-> 0, day |-> 0, weekday |-> 0,
              specialDay |-> "leap_day", totalDays |-> days]
        ELSE IF \/ (dayOfYear = regularMonthDays /\ ~isCurrentYearLeap)
                \/ (dayOfYear = regularMonthDays + 1 /\ isCurrentYearLeap)
        THEN [year |-> year, month |-> 0, day |-> 0, weekday |-> 0,
              specialDay |-> "year_day", totalDays |-> days]
        ELSE [year |-> year,
              month |-> (dayOfYear \div DAYS_PER_MONTH) + 1,
              day |-> (dayOfYear % DAYS_PER_MONTH) + 1,
              weekday |-> (dayOfYear % DAYS_PER_WEEK) + 1,
              specialDay |-> "normal", totalDays |-> days]

CalIdle == calInput = 0 /\ calResult = NoTime

CalInit == calInput \in 0..MaxCalDays /\ calResult = NoTime

\* one call of calculateGameTime(calInput)
Calculate ==
    /\ calResult = NoTime
    /\ calResult' = calculateGameTime(calInput)
    /\ UNCHANGED calInput

----------------------------------------------------------------------------
(* TimeSystem and World.tick *)

\* what the model remembers of the calls made since the last fresh start
\* (construction, loadState or reset)
NoSpeed    == 0 - 1   \* no tick yet
MixedSpeed == 0 - 2   \* ticks at different speeds

FreshObs(days) ==
    [startDays |-> days,       \* totalDays at the fresh start
     nTicks |-> 0,             \* ticks handed to TimeSystem.update
     firstTick |-> -1,         \* timestamp of the first of them
     lastTick |-> -1,          \* timestamp of the latest of them
     mono |-> TRUE,            \* their timestamps were non-decreasing
     tickSpeed |-> NoSpeed,    \* the one speed in force at all of them
     pauseStamp |-> -1,        \* timestamp of the latest tick processed at speed 0
     pauseDays |-> 0,          \* totalDays at that tick
     resumeSpeed |-> NoSpeed,  \* the one speed in force at the ticks after it
     resumeMono |-> TRUE]      \* those ticks were non-decreasing from pauseStamp on

JoinSpeed(seen, speed) ==
    IF seen = NoSpeed \/ seen = speed THEN speed ELSE MixedSpeed

TimeIdle ==
    /\ totalDays = 0
    /\ timeSpeed = PAUSED
    /\ lastUpdateTime = 0
    /\ accumulatedTime = 0
    /\ isRunning = FALSE
    /\ obs = FreshObs(0)

\* new TimeSystem(): the field initialisers
TimeInit == TimeIdle

\* TimeSystem.advanceTime(days)
advanceTime(days) ==
    IF days <= 0 THEN totalDays' = totalDays
    ELSE totalDays' = totalDays + days

\* a PAUSED branch that forgets to move the watermark
updateKeepsWatermark(timestamp) ==
    IF timeSpeed = PAUSED
    THEN /\ accumulatedTime' = 0
         /\ UNCHANGED <<lastUpdateTime, totalDays>>
    ELSE IF lastUpdateTime = 0
    THEN /\ lastUpdateTime' = timestamp
         /\ UNCHANGED <<accumulatedTime, totalDays>>
    ELSE LET acc == accumulatedTime + (timestamp - lastUpdateTime)
             msPerDay == 1000 \div timeSpeed
             daysToAdvance == acc \div msPerDay
         IN  /\ lastUpdateTime' = timestamp
             /\ IF daysToAdvance > 0
                THEN /\ advanceTime(daysToAdvance)
                     /\ accumulatedTime' = acc - daysToAdvance * msPerDay
                ELSE /\ accumulatedTime' = acc
                     /\ UNCHANGED totalDays

\* an update without the daysToAdvance > 0 guard
updateUnguarded(timestamp) ==
    IF timeSpeed = PAUSED
    THEN /\ lastUpdateTime' = timestamp
         /\ accumulatedTime' = 0
         /\ UNCHANGED totalDays
    ELSE IF lastUpdateTime = 0
    THEN /\ lastUpdateTime' = timestamp
         /\ UNCHANGED <<accumulatedTime, totalDays>>
    ELSE LET acc == accumulatedTime + (timestamp - lastUpdateTime)
             msPerDay == 1000 \div timeSpeed
             daysToAdvance == acc \div msPerDay
         IN  /\ lastUpdateTime' = timestamp
             /\ totalDays' = totalDays + daysToAdvance
             /\ accumulatedTime' = acc - daysToAdvance * msPerDay

\* an update that takes one day's worth from the accumulator however many days
\* it advanced
updateTakesOneDay(timestamp) ==
    IF timeSpeed = PAUSED
    THEN /\ lastUpdateTime' = timestamp
         /\ accumulatedTime' = 0
         /\ UNCHANGED totalDays
    ELSE IF lastUpdateTime = 0
    THEN /\ lastUpdateTime' = timestamp
         /\ UNCHANGED <<accumulatedTime, totalDays>>
    ELSE LET acc == accumulatedTime + (timestamp - lastUpdateTime)
             msPerDay == 1000 \div timeSpeed
             daysToAdvance == acc \div msPerDay
         IN  /\ lastUpdateTime' = timestamp
             /\ IF daysToAdvance > 0
                THEN /\ advanceTime(daysToAdvance)
                     /\ accumulatedTime' = acc - msPerDay
                ELSE /\ accumulatedTime' = acc
                     /\ UNCHANGED totalDays

\* TimeSystem.update(timestamp)
update(timestamp) ==
    IF timeSpeed = PAUSED
    THEN /\ lastUpdateTime' = timestamp
         /\ accumulatedTime' = 0
         /\ UNCHANGED totalDays
    ELSE IF lastUpdateTime = 0
    THEN /\ lastUpdateTime' = timestamp
         /\ UNCHANGED <<accumulatedTime, totalDays>>
    ELSE LET acc == accumulatedTime + (timestamp - lastUpdateTime)
             msPerDay == 1000 \div timeSpeed
             daysToAdvance == acc \div msPerDay
         IN  /\ lastUpdateTime' = timestamp
             /\ IF daysToAdvance > 0
                THEN /\ advanceTime(daysToAdvance)
                     /\ accumulatedTime' = acc - daysToAdvance * msPerDay
                ELSE /\ accumulatedTime' = acc
                     /\ UNCHANGED totalDays

\* the history after a tick that reached TimeSystem.update
ObserveTick(timestamp) ==
    LET paused == timeSpeed = PAUSED
    IN  [obs EXCEPT
           !.nTicks = @ + 1,
           !.firstTick = IF obs.nTicks = 0 THEN timestamp ELSE @,
           !.lastTick = timestamp,
           !.mono = @ /\ (obs.nTicks = 0 \/ timestamp >= obs.lastTick),
           !.tickSpeed = JoinSpeed(@, timeSpeed),
           !.pauseStamp = IF paused THEN timestamp ELSE @,
           !.pauseDays = IF paused THEN totalDays ELSE @,
           !.resumeSpeed = IF paused THEN NoSpeed ELSE JoinSpeed(@, timeSpeed),
           !.resumeMono = IF paused THEN TRUE
                          ELSE @ /\ obs.lastTick >= 0 /\ timestamp >= obs.lastTick]

\* World.tick(timestamp) while the world is running
Tick(timestamp) ==
    /\ isRunning
    /\ obs.nTicks < MaxTicks
    /\ update(timestamp)
    /\ obs' = ObserveTick(timestamp)
    /\ UNCHANGED <<timeSpeed, isRunning>>

\* World.tick(timestamp) while the world is not running: the early return
TickIgnored(timestamp) ==
    /\ ~isRunning
    /\ UNCHANGED timeVars

\* TimeSystem.setTimeSpeed(speed)
setTimeSpeed(speed) ==
    /\ timeSpeed' = speed
    /\ UNCHANGED <<totalDays, lastUpdateTime, accumulatedTime, isRunning, obs>>

\* TimeSystem.togglePause()
togglePause ==
    /\ timeSpeed' = IF timeSpeed = PAUSED THEN NORMAL ELSE PAUSED
    /\ UNCHANGED <<totalDays, lastUpdateTime, accumulatedTime, isRunning, obs>>

\* TimeSystem.loadState(state)
loadState(days, speed) ==
    /\ totalDays' = days
    /\ timeSpeed' = speed
    /\ lastUpdateTime' = 0
    /\ accumulatedTime' = 0
    /\ obs' = FreshObs(days)
    /\ UNCHANGED isRunning

\* TimeSystem.reset(startDay)
reset(startDay) ==
    /\ totalDays' = startDay
    /\ timeSpeed' = PAUSED
    /\ lastUpdateTime' = 0
    /\ accumulatedTime' = 0
    /\ obs' = FreshObs(startDay)
    /\ UNCHANGED isRunning

\* World.start()
WorldStart ==
    /\ ~isRunning
    /\ isRunning' = TRUE
    /\ UNCHANGED <<totalDays, timeSpeed, lastUpdateTime, accumulatedTime, obs>>

\* World.pause()
WorldPause ==
    /\ isRunning
    /\ isRunning' = FALSE
    /\ UNCHANGED <<totalDays, timeSpeed, lastUpdateTime, accumulatedTime, obs>>

----------------------------------------------------------------------------
(* useWorld.startWorld / pauseWorld and the game loop around World.tick *)

\* what the model remembers of the stops of the world
NoStop ==
    [paused |-> FALSE,        \* World.pause() was called and World.start() not yet
     resumed |-> FALSE,       \* World.start() was called after a World.pause()
     days |-> 0,              \* totalDays at that World.start()
     acc |-> 0,               \* accumulatedTime at that World.start()
     tick |-> 0 - 1,          \* timestamp of the first tick after it
     speed |-> NoSpeed,       \* the one speed in force from the pause on
     last |-> 0]              \* the latest timestamp the loop handed to World.tick

\* startWorld(): World.start(), then the loop is requested
startWorld ==
    /\ WorldStart
    /\ stop' = IF stop.paused
               THEN [stop EXCEPT !.paused = FALSE, !.resumed = TRUE,
                                 !.days = totalDays, !.acc = accumulatedTime,
                                 !.tick = 0 - 1,
                                 !.speed = JoinSpeed(@, timeSpeed)]
               ELSE stop

\* pauseWorld(): World.pause(), then the loop is cancelled
pauseWorld ==
    /\ WorldPause
    /\ stop' = [stop EXCEPT !.paused = TRUE, !.resumed = FALSE, !.speed = timeSpeed]

\* loop(timestamp) on a running world; requestAnimationFrame's timestamps never
\* go back
loopTick(timestamp) ==
    /\ timestamp >= stop.last
    /\ Tick(timestamp)
    /\ stop' = [stop EXCEPT
                  !.last = timestamp,
                  !.tick = IF stop.resumed /\ @ < 0 THEN timestamp ELSE @,
                  !.speed = IF stop.resumed THEN JoinSpeed(@, timeSpeed) ELSE @]

\* loop(timestamp) on a world that is not running: World.tick returns at once
loopIgnored(timestamp) ==
    /\ timestamp >= stop.last
    /\ TickIgnored(timestamp)
    /\ stop' = [stop EXCEPT !.last = timestamp]

----------------------------------------------------------------------------
(* Binary min-heap of {v, d} nodes, as written out in RoadPathfinder.shortestPath *)
(* and RoadGenerator.shortestPathLength.  heap[i] of the source is h[i + 1].      *)

Infinity == 1000000

\* null where a number is expected
Null == 0 - 1

\* the while (i > 0) loop of push: move parents down until the hole fits `node`
RECURSIVE SiftUp(_, _, _)
SiftUp(h, i, node) ==
    IF i > 0
    THEN LET p == (i - 1) \div 2
             parentNode == h[p + 1]
         IN  IF parentNode.d <= node.d
             THEN [h EXCEPT ![i + 1] = node]
             ELSE SiftUp([h EXCEPT ![i + 1] = parentNode], p, node)
    ELSE [h EXCEPT ![i + 1] = node]

\* a push that appends without restoring the heap order
HeapPushNoSift(h, v, d) == Append(h, [v |-> v, d |-> d])

\* push(v, d)
HeapPush(h, v, d) ==
    LET node == [v |-> v, d |-> d]
    IN  SiftUp(Append(h, node), Len(h), node)

\* the while (true) loop of pop: swap the root down below its smaller child
RECURSIVE SiftDown(_, _)
SiftDown(h, i) ==
    LET l == i * 2 + 1
        r == l + 1
        afterLeft == IF l < Len(h) /\ h[l + 1].d < h[i + 1].d THEN l ELSE i
        smallest == IF r < Len(h) /\ h[r + 1].d < h[afterLeft + 1].d
                    THEN r ELSE afterLeft
    IN  IF smallest = i
        THEN h
        ELSE SiftDown([h EXCEPT ![i + 1] = h[smallest + 1],
                                ![smallest + 1] = h[i + 1]], smallest)

\* pop(): the root, and the heap left behind (h is non-empty)
HeapPop(h) ==
    LET root == h[1]
        last == h[Len(h)]
        rest == SubSeq(h, 1, Len(h) - 1)
    IN  IF rest = <<>>
        THEN [node |-> root, heap |-> rest]
        ELSE [node |-> root, heap |-> SiftDown([rest EXCEPT ![1] = last], 0)]

----------------------------------------------------------------------------
(* RoadPathfinder *)

\* a key that tells a-b from b-a
edgeKeyDirected(a, b) == <<a, b>>

\* edgeKey(a, b): the unordered pair, smaller index first
edgeKey(a, b) == IF a < b THEN <<a, b>> ELSE <<b, a>>

EmptyGraph(settlementCount) ==
    [adjacency |-> [n \in 0..(settlementCount - 1) |-> <<>>],
     edgeToRoad |-> <<>>]

\* a road entered in the list of its aIndex only
PushOneWay(adjacency, a, b, weight, i) ==
    [adjacency EXCEPT ![a] = Append(@, [to |-> b, weight |-> weight, roadIndex |-> i])]

\* fromList.push and toList.push
PushBothWays(adjacency, a, b, weight, i) ==
    LET adj1 == [adjacency EXCEPT ![a] =
                    Append(@, [to |-> b, weight |-> weight, roadIndex |-> i])]
    IN  [adj1 EXCEPT ![b] = Append(@, [to |-> a, weight |-> weight, roadIndex |-> i])]

\* the body of buildGraph's loop for roads[i] (i counts from 0), applied in order
RECURSIVE BuildGraphFrom(_, _, _, _)
BuildGraphFrom(roads, settlementCount, i, graph) ==
    IF i >= Len(roads) THEN graph
    ELSE LET road == roads[i + 1]
             a == road.aIndex
             b == road.bIndex
         IN  IF a < 0 \/ b < 0 \/ a >= settlementCount \/ b >= settlementCount
             THEN BuildGraphFrom(roads, settlementCount, i + 1, graph)
             ELSE LET adj2 == PushBothWays(graph.adjacency, a, b, road.length, i)
                      key == edgeKey(a, b)
                      e2r == [k \in (DOMAIN graph.edgeToRoad) \cup {key} |->
                                 IF k = key THEN i ELSE graph.edgeToRoad[k]]
                  IN  BuildGraphFrom(roads, settlementCount, i + 1,
                                     [adjacency |-> adj2, edgeToRoad |-> e2r])

\* buildGraph(roads, settlementCount)
buildGraph(roads, settlementCount) ==
    BuildGraphFrom(roads, settlementCount, 0, EmptyGraph(settlementCount))

NoResult == [nodes |-> <<>>, distance |-> 0 - 1]   \* shortestPath returned null

\* the for (const edge of edges) loop of shortestPath, from edge number k on
RECURSIVE RelaxEdges(_, _, _, _)
RelaxEdges(st, edges, k, node) ==
    IF k > Len(edges) THEN st
    ELSE LET edge == edges[k]
             currentDist == st.dist[edge.to]
             nd == node.d + edge.weight
         IN  IF nd < currentDist
             THEN RelaxEdges([st EXCEPT !.dist[edge.to] = nd,
                                        !.prev[edge.to] = node.v,
                                        !.heap = HeapPush(st.heap, edge.to, nd)],
                             edges, k + 1, node)
             ELSE RelaxEdges(st, edges, k + 1, node)

\* the walk back along prev from `cur`, in the order the nodes are pushed
RECURSIVE PrevChain(_, _)
PrevChain(prev, cur) ==
    IF cur = 0 - 1 THEN <<>> ELSE <<cur>> \o PrevChain(prev, prev[cur])

Reverse(seq) == [i \in 1..Len(seq) |-> seq[Len(seq) + 1 - i]]

PathIdle ==
    /\ pfRoads = <<>>
    /\ pfGraph = EmptyGraph(0)
    /\ pf = [pc |-> "idle"]

\* the roads a graph may be built from (stored with aIndex < bIndex)
PathRoadChoices ==
    {[aIndex |-> a, bIndex |-> b, length |-> w] :
        a \in 0..(PathNodes - 1), b \in 0..(PathNodes - 1), w \in 0..MaxWeight}

RoadRank(r) == (r.aIndex * PathNodes + r.bIndex) * (MaxWeight + 1) + r.length

\* the road lists of up to n roads drawn from S, listed by (aIndex, bIndex, length);
\* the same road may occur several times
RECURSIVE RoadListsUpTo(_, _)
RoadListsUpTo(S, n) ==
    IF n = 0 THEN {<<>>}
    ELSE LET shorter == RoadListsUpTo(S, n - 1)
             longest == {t \in shorter : Len(t) = n - 1}
         IN  shorter \cup
             UNION {{Append(q, x) : x \in {y \in S : n = 1 \/ RoadRank(q[n - 1]) <= RoadRank(y)}} :
                    q \in longest}

\* a road list and the graph buildGraph makes of it, before any query
PathInit ==
    /\ pfRoads \in RoadListsUpTo({r \in PathRoadChoices : r.aIndex < r.bIndex}, MaxRoads)
    /\ \E settlementCount \in {0, PathNodes} :
          pfGraph = buildGraph(pfRoads, settlementCount)
    /\ pf = [pc |-> "idle"]

\* shortestPath(start, end, graph) up to the while loop
shortestPathBegin(start, end) ==
    /\ pf.pc = "idle"
    /\ LET nodeCount == Cardinality(DOMAIN pfGraph.adjacency)
       IN  IF start < 0 \/ end < 0 \/ start >= nodeCount \/ end >= nodeCount
              \/ nodeCount = 0
           THEN pf' = [pc |-> "done", start |-> start, end |-> end, result |-> NoResult]
           ELSE IF start = end
           THEN pf' = [pc |-> "done", start |-> start, end |-> end,
                       result |-> [nodes |-> <<start>>, distance |-> 0]]
           ELSE pf' = [pc |-> "loop", start |-> start, end |-> end,
                       dist |-> [n \in 0..(nodeCount - 1) |->
                                    IF n = start THEN 0 ELSE Infinity],
                       prev |-> [n \in 0..(nodeCount - 1) |-> 0 - 1],
                       visited |-> [n \in 0..(nodeCount - 1) |-> FALSE],
                       heap |-> <<[v |-> start, d |-> 0]>>]
    /\ UNCHANGED <<pfRoads, pfGraph>>

\* one turn of while (heap.length): pop, skip or settle, relax the edges
shortestPathStep ==
    /\ pf.pc = "loop"
    /\ pf.heap # <<>>
    /\ LET popped == HeapPop(pf.heap)
           node == popped.node
           v == node.v
       IN  IF pf.visited[v]
           THEN pf' = [pf EXCEPT !.heap = popped.heap]
           ELSE IF v = pf.end
           THEN pf' = [pf EXCEPT !.heap = popped.heap, !.visited[v] = TRUE,
                                 !.pc = "finish"]
           ELSE pf' = RelaxEdges([pf EXCEPT !.heap = popped.heap, !.visited[v] = TRUE],
                                 pfGraph.adjacency[v], 1, node)
    /\ UNCHANGED <<pfRoads, pfGraph>>

\* after the loop: null when dist[end] is infinite, else the reversed prev chain
shortestPathFinish ==
    /\ \/ pf.pc = "finish"
       \/ pf.pc = "loop" /\ pf.heap = <<>>
    /\ LET distance == pf.dist[pf.end]
       IN  pf' = [pc |-> "done", start |-> pf.start, end |-> pf.end,
                  result |-> IF distance = Infinity THEN NoResult
                             ELSE [nodes |-> Reverse(PrevChain(pf.prev, pf.end)),
                                   distance |-> distance]]
    /\ UNCHANGED <<pfRoads, pfGraph>>

----------------------------------------------------------------------------
(* SettlementClassifier                                                     *)
(*                                                                          *)
(* Settlements are indexed 0..N-1 as in the source.  A suitability is       *)
(* k / MaxSuit with k in 0..MaxSuit; the weights of DEFAULTS are hundredths *)
(* and cityShare is thousandths.  A raw score r is kept as the integer      *)
(* r * 100 * ScoreDenominator, a cityScore s as s * ScoreOne, so that every *)
(* quotient of classify is exact.                                           *)

Undefined == "undefined"

Max2(a, b) == IF a >= b THEN a ELSE b
Min2(a, b) == IF a <= b THEN a ELSE b

RECURSIVE Gcd(_, _)
Gcd(a, b) == IF b = 0 THEN a ELSE Gcd(b, a % b)

RECURSIVE LcmUpTo(_)
LcmUpTo(n) == IF n <= 1 THEN 1 ELSE LET l == LcmUpTo(n - 1) IN (l * n) \div Gcd(l, n)

ScoreDenominator == MaxSuit * LcmUpTo(Max2(MaxSuit, ClsNodes))
ScoreOne == 140 * ScoreDenominator    \* a cityScore of 1.0 (raw 1.4)

DEFAULTS ==
    [minCityHops |-> 3, cityShare |-> 15, minCities |-> 4, maxCities |-> 60,
     suitabilityWeight |-> 55, directNeighborWeight |-> 20,
     neighborSuitabilityWeight |-> 15, secondHopWeight |-> 25,
     minScoreForCity |-> 35]

\* { ...DEFAULTS, ...options }
MergeOptions(options) ==
    [f \in DOMAIN DEFAULTS |-> IF f \in DOMAIN options THEN options[f] ELSE DEFAULTS[f]]

clamp(value, min, max) == Max2(min, Min2(max, value))

\* Math.round(count * cityShare), cityShare in thousandths
RoundShare(count, cityShare) == (2 * count * cityShare + 1000) \div 2000

SetMax(S) == CHOOSE x \in S : \A y \in S : y <= x

RECURSIVE SetSum(_, _)
SetSum(S, f) ==
    IF S = {} THEN 0
    ELSE LET x == CHOOSE y \in S : TRUE IN f[x] + SetSum(S \ {x}, f)

\* the elements of S in ascending order
RECURSIVE Ascending(_)
Ascending(S) ==
    IF S = {} THEN <<>>
    ELSE LET x == CHOOSE y \in S : \A z \in S : y <= z
         IN  <<x>> \o Ascending(S \ {x})

\* the function f, tabulated once
Tabulated(f) == f @@ <<>>

\* roads with a negative index are skipped, indices past the end add nothing
buildAdjacency(count, roads) ==
    Tabulated([i \in 0..(count - 1) |->
        {j \in 0..(count - 1) :
            \E r \in roads : /\ r[1] >= 0 /\ r[2] >= 0
                             /\ \/ r[1] = i /\ r[2] = j
                                \/ r[2] = i /\ r[1] = j}])

countSecondHop(index, adjacency) ==
    LET neighbors == adjacency[index]
    IN  IF neighbors = {} THEN 0
        ELSE Cardinality(neighbors \cup
                 {s \in UNION {adjacency[n] : n \in neighbors} : s # index})

\* sum / count of the neighbours' suitabilities, times ScoreDenominator
averageNeighborSuitability(index, adjacency, settlements) ==
    LET neighbors == adjacency[index]
        count == Cardinality(neighbors)
        sum == SetSum(neighbors, [n \in neighbors |-> settlements[n].suitability])
    IN  IF neighbors = {} THEN 0
        ELSE (sum * ScoreDenominator) \div (MaxSuit * count)

\* the bounded BFS: is there a path of at most maxDepth roads from start to target
RECURSIVE BfsLoop(_, _, _, _, _)
BfsLoop(queue, visited, target, maxDepth, adjacency) ==
    IF queue = <<>> THEN FALSE
    ELSE LET v == queue[1].v
             d == queue[1].d
             fresh == adjacency[v] \ visited
         IN  IF d >= maxDepth
             THEN BfsLoop(Tail(queue), visited, target, maxDepth, adjacency)
             ELSE IF target \in adjacency[v] THEN TRUE
             ELSE BfsLoop(Tail(queue) \o [k \in 1..Cardinality(fresh) |->
                                             [v |-> Ascending(fresh)[k], d |-> d + 1]],
                          visited \cup fresh, target, maxDepth, adjacency)

\* a BFS that stops one level early
shortestPathWithinShallow(start, target, maxDepth, adjacency) ==
    IF start = target THEN TRUE
    ELSE IF maxDepth <= 0 THEN FALSE
    ELSE BfsLoop(<<[v |-> start, d |-> 0]>>, {start}, target, maxDepth - 1, adjacency)

shortestPathWithin(start, target, maxDepth, adjacency) ==
    IF start = target THEN TRUE
    ELSE IF maxDepth <= 0 THEN FALSE
    ELSE BfsLoop(<<[v |-> start, d |-> 0]>>, {start}, target, maxDepth, adjacency)

hasEnoughHopDistance(candidateIdx, cityIndices, minHops, adjacency) ==
    IF cityIndices = <<>> THEN TRUE
    ELSE IF minHops <= 1 THEN TRUE
    ELSE \A k \in 1..Len(cityIndices) :
            ~shortestPathWithin(candidateIdx, cityIndices[k], minHops - 1, adjacency)

\* lines 44-48: degrees, secondHopReach and the three maxima
Metrics(settlements, adjacency) ==
    LET degrees == Tabulated([j \in DOMAIN settlements |-> Cardinality(adjacency[j])])
        secondHopReach ==
            Tabulated([j \in DOMAIN settlements |-> countSecondHop(j, adjacency)])
    IN  [degrees |-> degrees,
         maxDegree |-> Max2(1, SetMax({degrees[j] : j \in DOMAIN settlements})),
         secondHopReach |-> secondHopReach,
         maxSecondHop |-> Max2(1, SetMax({secondHopReach[j] : j \in DOMAIN settlements})),
         \* Math.max(0.0001, ...): a largest suitability of 0 makes every quotient 0
         maxSuitability |->
             SetMax({settlements[j].suitability : j \in DOMAIN settlements})]

\* lines 52-82: the annotations of settlement i
ScoreOf(i, settlements, adjacency, metrics, config) ==
    LET baseSuitability ==
            IF metrics.maxSuitability = 0 THEN 0
            ELSE (settlements[i].suitability * ScoreDenominator)
                     \div metrics.maxSuitability
        degree == metrics.degrees[i]
        directScore == (degree * ScoreDenominator) \div metrics.maxDegree
        neighborSuitability == averageNeighborSuitability(i, adjacency, settlements)
        secondHop == metrics.secondHopReach[i]
        secondHopScore == (secondHop * ScoreDenominator) \div metrics.maxSecondHop
        networkScore == directScore * config.directNeighborWeight
                        + neighborSuitability * config.neighborSuitabilityWeight
                        + secondHopScore * config.secondHopWeight
        connectivityBonus == IF degree >= 4 THEN 5 * ScoreDenominator
                             ELSE IF degree >= 2 THEN 2 * ScoreDenominator ELSE 0
        rawScore == baseSuitability * config.suitabilityWeight + networkScore
                    + connectivityBonus
        cityScore == clamp(rawScore, 0, ScoreOne)
    IN  [suitability |-> settlements[i].suitability,
         cityScore |-> clamp(cityScore, 0, ScoreOne),
         roadDegree |-> degree,
         secondHopReach |-> secondHop,
         category |-> "village"]

\* scores.sort((a, b) => b.score - a.score): descending, equal scores keep index order
RECURSIVE SortByScore(_, _)
SortByScore(S, settlements) ==
    IF S = {} THEN <<>>
    ELSE LET best == CHOOSE i \in S : \A j \in S :
                        \/ settlements[i].cityScore > settlements[j].cityScore
                        \/ /\ settlements[i].cityScore = settlements[j].cityScore
                           /\ i <= j
         IN  <<best>> \o SortByScore(S \ {best}, settlements)

\* score < config.minScoreForCity
BelowMinScore(score, config) == score * 100 < config.minScoreForCity * ScoreOne

\* a target that forgets the clamp to [minCities, maxCities]
TargetCitiesUnclamped(count, config) ==
    Min2(count, RoundShare(count, config.cityShare))

\* targetCities, lines 86-93
TargetCities(count, config) ==
    Min2(count, clamp(RoundShare(count, config.cityShare),
                      config.minCities, config.maxCities))

NewSettlement(k) ==
    [suitability |-> k, cityScore |-> Undefined, roadDegree |-> Undefined,
     secondHopReach |-> Undefined, category |-> Undefined]

ClsIdle ==
    /\ clsSettlements = <<>>
    /\ clsRoads = {}
    /\ clsConfig = DEFAULTS
    /\ cls = [pc |-> "idle"]

ClsOptions ==
    { <<>>,
      [minCityHops |-> 2, cityShare |-> 500, minCities |-> 2, maxCities |-> 3],
      [minCityHops |-> 1, cityShare |-> 1000, minCities |-> 1, maxCities |-> 2] }

ClsPairs(count) == {r \in (0..(count - 1)) \X (0..(count - 1)) : r[1] < r[2]}

ClsInit ==
    /\ \E count \in 0..ClsNodes :
          /\ clsSettlements \in [0..(count - 1) -> {NewSettlement(k) : k \in 0..MaxSuit}]
          /\ clsRoads \in {R \in SUBSET ClsPairs(count) : Cardinality(R) <= MaxClsRoads}
    /\ clsConfig \in {MergeOptions(o) : o \in ClsOptions}
    /\ cls = [pc |-> "idle"]

\* lines 44-95 once the adjacency and the metrics are known
ScoreAndSort(adjacency, metrics) ==
    LET scored == Tabulated([i \in DOMAIN clsSettlements |->
                      ScoreOf(i, clsSettlements, adjacency, metrics, clsConfig)])
    IN  /\ clsSettlements' = scored
        /\ cls' = [pc |-> "select",
                   adjacency |-> adjacency,
                   sorted |-> SortByScore(DOMAIN scored, scored),
                   pos |-> 1,
                   targetCities |->
                       TargetCities(Cardinality(DOMAIN clsSettlements), clsConfig),
                   minCityHops |-> Max2(1, clsConfig.minCityHops),
                   cityIndices |-> <<>>]

\* classify up to the selection loop: lines 39-95
classifyBegin ==
    /\ cls.pc = "idle"
    /\ IF DOMAIN clsSettlements = {}
       THEN /\ cls' = [pc |-> "done", cityIndices |-> <<>>]
            /\ UNCHANGED clsSettlements
       ELSE \E adjacency \in
                 {buildAdjacency(Cardinality(DOMAIN clsSettlements), clsRoads)} :
               \E metrics \in {Metrics(clsSettlements, adjacency)} :
                  ScoreAndSort(adjacency, metrics)
    /\ UNCHANGED <<clsRoads, clsConfig>>

\* one iteration of the selection loop: lines 97-118
classifySelect ==
    /\ cls.pc = "select"
    /\ cls.pos <= Len(cls.sorted)
    /\ Len(cls.cityIndices) < cls.targetCities
    /\ LET idx == cls.sorted[cls.pos]
           score == clsSettlements[idx].cityScore
       IN  IF \/ BelowMinScore(score, clsConfig)
              \/ ~hasEnoughHopDistance(idx, cls.cityIndices, cls.minCityHops,
                                       cls.adjacency)
           THEN /\ cls' = [cls EXCEPT !.pos = @ + 1]
                /\ UNCHANGED clsSettlements
           ELSE /\ cls' = [cls EXCEPT !.pos = @ + 1,
                                      !.cityIndices = Append(@, idx)]
                /\ clsSettlements' = [clsSettlements EXCEPT ![idx].category = "city"]
    /\ UNCHANGED <<clsRoads, clsConfig>>

\* score >= townThreshold = max(minScoreForCity * 0.55, maxScore * 0.4)
AtLeastTownThreshold(score, maxScore, config) ==
    /\ score * 10000 >= config.minScoreForCity * 55 * ScoreOne
    /\ score * 10 >= maxScore * 4

\* after the loop: towns and villages, lines 120-135
classifyTowns ==
    /\ cls.pc = "select"
    /\ \/ cls.pos > Len(cls.sorted)
       \/ Len(cls.cityIndices) >= cls.targetCities
    /\ LET maxScore == clsSettlements[cls.sorted[1]].cityScore
       IN  clsSettlements' =
              [i \in DOMAIN clsSettlements |->
                  LET s == clsSettlements[i]
                  IN  IF s.category = "city" THEN s
                      ELSE IF \/ s.roadDegree >= 2
                              \/ AtLeastTownThreshold(s.cityScore, maxScore, clsConfig)
                      THEN [s EXCEPT !.category = "town"]
                      ELSE [s EXCEPT !.category = "village"]]
    /\ cls' = [cls EXCEPT !.pc = "done"]
    /\ UNCHANGED <<clsRoads, clsConfig>>

----------------------------------------------------------------------------
(* RoadGenerator                                                            *)
(*                                                                          *)
(* Coordinates are integer pixels.  A length is kept in thousandths of a    *)
(* pixel: Math.sqrt(q) is Isqrt(q * 1000000), the square root rounded down  *)
(* to a thousandth.  pathFactor, heights and the water threshold are in     *)
(* hundredths.  The grid step is even in every configuration modelled.      *)
(* The heaps of shortestPathLength and findPath are the push / pop of       *)
(* RoadPathfinder.shortestPath, line for line (HeapPush, HeapPop).          *)

RECURSIVE IsqrtBetween(_, _, _)
IsqrtBetween(n, lo, hi) ==
    IF hi - lo <= 1 THEN lo
    ELSE LET mid == (lo + hi) \div 2
         IN  IF mid * mid <= n THEN IsqrtBetween(n, mid, hi)
             ELSE IsqrtBetween(n, lo, mid)

\* the largest r with r * r <= n, for 0 <= n < 46341 * 46341
Isqrt(n) == IsqrtBetween(n, 0, Min2(n, 46340) + 1)

\* Math.sqrt(dx * dx + dy * dy)
Hypot(dx, dy) == Isqrt((dx * dx + dy * dy) * 1000000)

NoHeightmap == <<>>
NoPath == <<>>

\* the defaults of generate and createPathConfig, with the options laid over
GenDefaults ==
    [kNearest |-> 3, maxDistance |-> Infinity, forceMST |-> TRUE, pathFactor |-> 120,
     mapWidth |-> 0, mapHeight |-> 0, heightmap |-> NoHeightmap, gridStep |-> 8,
     slopeCost |-> 8, waterThreshold |-> 35, waterPenalty |-> 6]

GenOptionsOver(options) ==
    [f \in DOMAIN GenDefaults |->
        IF f \in DOMAIN options THEN options[f] ELSE GenDefaults[f]]

CeilDiv(a, b) == (a + b - 1) \div b

\* createPathConfig: null without a heightmap or a map size
createPathConfig(options) ==
    IF options.heightmap = NoHeightmap \/ options.mapWidth = 0 \/ options.mapHeight = 0
    THEN NoPath
    ELSE LET step == Max2(2, options.gridStep)
         IN  [heightmap |-> options.heightmap,
              width |-> options.mapWidth,
              height |-> options.mapHeight,
              cols |-> Max2(1, CeilDiv(options.mapWidth, step)),
              rows |-> Max2(1, CeilDiv(options.mapHeight, step)),
              step |-> step,
              slopeCost |-> options.slopeCost,
              waterThreshold |-> options.waterThreshold,
              waterPenalty |-> options.waterPenalty]

\* measurePath: the sum of the segment lengths
RECURSIVE measurePath(_)
measurePath(points) ==
    IF Len(points) < 2 THEN 0
    ELSE Hypot(points[2].x - points[1].x, points[2].y - points[1].y)
         + measurePath(Tail(points))

\* ---- buildCandidateEdges ----

DistSq(a, b) == (b.x - a.x) * (b.x - a.x) + (b.y - a.y) * (b.y - a.y)

\* neighbors.sort by distSq: ascending, equal distances keep index order
RECURSIVE NearestFirst(_, _, _)
NearestFirst(S, i, settlements) ==
    IF S = {} THEN <<>>
    ELSE LET best == CHOOSE j \in S : \A k \in S :
                        \/ DistSq(settlements[i], settlements[j])
                               < DistSq(settlements[i], settlements[k])
                        \/ /\ DistSq(settlements[i], settlements[j])
                                  = DistSq(settlements[i], settlements[k])
                           /\ j <= k
         IN  <<best>> \o NearestFirst(S \ {best}, i, settlements)

\* the edges pushed for settlement i
EdgesOf(i, settlements, kNearest, maxDistance) ==
    LET others == {j \in DOMAIN settlements :
                      j # i /\ DistSq(settlements[i], settlements[j]) > 0}
        neighbors == NearestFirst(others, i, settlements)
        limit == Max2(1, kNearest)
        taken == SubSeq(neighbors, 1, Min2(limit, Len(neighbors)))
        Near(j) == ~(/\ maxDistance # Infinity
                     /\ DistSq(settlements[i], settlements[j]) > maxDistance * maxDistance)
        kept == SelectSeq(taken, Near)
    IN  [k \in 1..Len(kept) |->
            [a |-> i, b |-> kept[k],
             length |-> Isqrt(DistSq(settlements[i], settlements[kept[k]]) * 1000000)]]

RECURSIVE CandidatesFrom(_, _, _, _)
CandidatesFrom(i, settlements, kNearest, maxDistance) ==
    IF i \notin DOMAIN settlements THEN <<>>
    ELSE EdgesOf(i, settlements, kNearest, maxDistance)
         \o CandidatesFrom(i + 1, settlements, kNearest, maxDistance)

buildCandidateEdges(settlements, kNearest, maxDistance) ==
    CandidatesFrom(0, settlements, kNearest, maxDistance)

\* [...edges].sort((e1, e2) => e1.length - e2.length): stable insertion
RECURSIVE InsertByLength(_, _)
InsertByLength(sorted, e) ==
    IF sorted = <<>> THEN <<e>>
    ELSE IF sorted[Len(sorted)].length <= e.length THEN Append(sorted, e)
    ELSE Append(InsertByLength(SubSeq(sorted, 1, Len(sorted) - 1), e),
                sorted[Len(sorted)])

RECURSIVE SortByLength(_)
SortByLength(edges) ==
    IF edges = <<>> THEN <<>>
    ELSE InsertByLength(SortByLength(SubSeq(edges, 1, Len(edges) - 1)),
                        edges[Len(edges)])

\* ---- buildMST: Kruskal over a union-find with ranks and path compression ----

RECURSIVE findRoot(_, _)
findRoot(parent, x) == IF parent[x] = x THEN x ELSE findRoot(parent, parent[x])

\* find(x) leaves every node on the way pointing at the root
RECURSIVE findCompress(_, _, _)
findCompress(parent, x, root) ==
    IF parent[x] = x THEN parent
    ELSE findCompress([parent EXCEPT ![x] = root], parent[x], root)

union(uf, x, y) ==
    LET rx == findRoot(uf.parent, x)
        afterX == findCompress(uf.parent, x, rx)
        ry == findRoot(afterX, y)
        afterY == findCompress(afterX, y, ry)
    IN  IF rx = ry THEN [merged |-> FALSE, parent |-> afterY, rank |-> uf.rank]
        ELSE IF uf.rank[rx] < uf.rank[ry]
        THEN [merged |-> TRUE, parent |-> [afterY EXCEPT ![rx] = ry], rank |-> uf.rank]
        ELSE IF uf.rank[rx] > uf.rank[ry]
        THEN [merged |-> TRUE, parent |-> [afterY EXCEPT ![ry] = rx], rank |-> uf.rank]
        ELSE [merged |-> TRUE, parent |-> [afterY EXCEPT ![ry] = rx],
              rank |-> [uf.rank EXCEPT ![rx] = @ + 1]]

RECURSIVE KruskalLoop(_, _, _, _, _)
KruskalLoop(sorted, k, uf, mst, nodeCount) ==
    IF k > Len(sorted) THEN mst
    ELSE LET e == sorted[k]
             u == union(uf, e.a, e.b)
         IN  IF ~u.merged THEN KruskalLoop(sorted, k + 1, u, mst, nodeCount)
             ELSE IF Len(mst) + 1 >= nodeCount - 1 THEN Append(mst, e)
             ELSE KruskalLoop(sorted, k + 1, u, Append(mst, e), nodeCount)

\* the nodeCount - 1 shortest edges, whatever they join
buildMSTShortest(nodeCount, edges) ==
    SubSeq(SortByLength(edges), 1, Min2(Len(edges), nodeCount - 1))

buildMST(nodeCount, edges) ==
    KruskalLoop(SortByLength(edges), 1,
                [parent |-> Tabulated([i \in 0..(nodeCount - 1) |-> i]),
                 rank |-> Tabulated([i \in 0..(nodeCount - 1) |-> 0])],
                <<>>, nodeCount)

\* ---- shortestPathLength: Dijkstra over the adjacency lists ----

createAdjacency(nodeCount) == Tabulated([i \in 0..(nodeCount - 1) |-> <<>>])

RECURSIVE RelaxAdjacent(_, _, _, _)
RelaxAdjacent(st, edges, k, d) ==
    IF k > Len(edges) THEN st
    ELSE LET edge == edges[k]
             nd == d + edge.w
         IN  IF edge.to \in DOMAIN st.dist /\ nd < st.dist[edge.to]
             THEN RelaxAdjacent([dist |-> [st.dist EXCEPT ![edge.to] = nd],
                                 heap |-> HeapPush(st.heap, edge.to, nd)],
                                edges, k + 1, d)
             ELSE RelaxAdjacent(st, edges, k + 1, d)

RECURSIVE DijkstraLoop(_, _, _)
DijkstraLoop(st, end, adjacency) ==
    IF st.heap = <<>> THEN Infinity
    ELSE LET popped == HeapPop(st.heap)
             v == popped.node.v
             d == popped.node.d
             rest == [dist |-> st.dist, heap |-> popped.heap]
         IN  IF d > st.dist[v] THEN DijkstraLoop(rest, end, adjacency)
             ELSE IF v = end THEN d
             ELSE DijkstraLoop(RelaxAdjacent(rest, adjacency[v], 1, d), end, adjacency)

\* a search that only looks at the roads leaving `start`
shortestPathLengthDirect(start, end, adjacency) ==
    LET direct == {adjacency[start][k].w :
                      k \in {j \in 1..Len(adjacency[start]) : adjacency[start][j].to = end}}
    IN  IF start = end THEN 0
        ELSE IF direct = {} THEN Infinity
        ELSE CHOOSE w \in direct : \A u \in direct : w <= u

shortestPathLength(start, end, adjacency) ==
    IF start = end THEN 0
    ELSE DijkstraLoop(
             [dist |-> [Tabulated([i \in DOMAIN adjacency |-> Infinity])
                           EXCEPT ![start] = 0],
              heap |-> <<[v |-> start, d |-> 0]>>],
             end, adjacency)

\* ---- findPath: A* over the coarse grid ----

toCell(x, y, ctx) ==
    [cx |-> Max2(0, Min2(ctx.cols - 1, x \div ctx.step)),
     cy |-> Max2(0, Min2(ctx.rows - 1, y \div ctx.step))]

\* the centre of cell (cx, cy), doubled
Centre2(c, ctx) == 2 * c * ctx.step + ctx.step

sampleHeight(cx, cy, ctx) ==
    LET x == Min2(ctx.width - 1, Max2(0, Centre2(cx, ctx) \div 2))
        y == Min2(ctx.height - 1, Max2(0, Centre2(cy, ctx) \div 2))
        at == y * ctx.width + x
    IN  IF at \in DOMAIN ctx.heightmap THEN ctx.heightmap[at] ELSE 0

heuristic(cx, cy, b, ctx) ==
    LET dx2 == Centre2(cx, ctx) - 2 * b.x
        dy2 == Centre2(cy, ctx) - 2 * b.y
    IN  Isqrt((dx2 * dx2 + dy2 * dy2) * 250000)

dirs == << <<1, 0>>, <<0 - 1, 0>>, <<0, 1>>, <<0, 0 - 1>>,
           <<1, 1>>, <<1, 0 - 1>>, <<0 - 1, 1>>, <<0 - 1, 0 - 1>> >>

Abs(x) == IF x < 0 THEN 0 - x ELSE x

\* the cost of the move from a cell of height h to a neighbour of height nh
MoveCost(dx, dy, h, nh, ctx) ==
    LET base == IF dx = 0 \/ dy = 0 THEN ctx.step * 1000
                ELSE Isqrt(2 * ctx.step * ctx.step * 1000000)
        slope == Abs(nh - h)
        slopePenalty == 100 + slope * ctx.slopeCost
        waterPenalty == IF h < ctx.waterThreshold \/ nh < ctx.waterThreshold
                        THEN 100 * ctx.waterPenalty ELSE 0
    IN  (base * (slopePenalty + waterPenalty)) \div 100

\* the for (const [dx, dy] of dirs) loop around cell v = (cx, cy)
RECURSIVE RelaxDirs(_, _, _, _, _, _)
RelaxDirs(st, k, v, b, ctx, h) ==
    IF k > Len(dirs) THEN st
    ELSE LET cy == v \div ctx.cols
             cx == v - cy * ctx.cols
             nx == cx + dirs[k][1]
             ny == cy + dirs[k][2]
             nv == ny * ctx.cols + nx
         IN  IF nx < 0 \/ ny < 0 \/ nx >= ctx.cols \/ ny >= ctx.rows
             THEN RelaxDirs(st, k + 1, v, b, ctx, h)
             ELSE IF nv \in st.visited THEN RelaxDirs(st, k + 1, v, b, ctx, h)
             ELSE LET nd == st.dist[v] + MoveCost(dirs[k][1], dirs[k][2], h,
                                                  sampleHeight(nx, ny, ctx), ctx)
                  IN  IF nd < st.dist[nv]
                      THEN RelaxDirs([dist |-> [st.dist EXCEPT ![nv] = nd],
                                      visited |-> st.visited,
                                      prev |-> [st.prev EXCEPT ![nv] = v],
                                      heap |-> HeapPush(st.heap, nv,
                                                        nd + heuristic(nx, ny, b, ctx))],
                                     k + 1, v, b, ctx, h)
                      ELSE RelaxDirs(st, k + 1, v, b, ctx, h)

RECURSIVE AStarLoop(_, _, _, _)
AStarLoop(st, goalIdx, b, ctx) ==
    IF st.heap = <<>> THEN st
    ELSE LET popped == HeapPop(st.heap)
             v == popped.node.v
             rest == [st EXCEPT !.heap = popped.heap]
         IN  IF v \in st.visited THEN AStarLoop(rest, goalIdx, b, ctx)
             ELSE LET seen == [rest EXCEPT !.visited = @ \cup {v}]
                  IN  IF v = goalIdx THEN seen
                      ELSE AStarLoop(
                               RelaxDirs(seen, 1, v, b, ctx,
                                         sampleHeight(v - (v \div ctx.cols) * ctx.cols,
                                                      v \div ctx.cols, ctx)),
                               goalIdx, b, ctx)

CellPoint(cur, ctx) ==
    LET cy == cur \div ctx.cols
        cx == cur - cy * ctx.cols
    IN  [x |-> Centre2(cx, ctx) \div 2, y |-> Centre2(cy, ctx) \div 2]

\* a findPath that returns the cell centres, the two ends included
findPathCentres(a, b, ctx) ==
    LET start == toCell(a.x, a.y, ctx)
        goal == toCell(b.x, b.y, ctx)
        size == ctx.cols * ctx.rows
        startIdx == start.cy * ctx.cols + start.cx
        goalIdx == goal.cy * ctx.cols + goal.cx
        final == AStarLoop(
                     [dist |-> [Tabulated([i \in 0..(size - 1) |-> Infinity])
                                   EXCEPT ![startIdx] = 0],
                      visited |-> {},
                      prev |-> Tabulated([i \in 0..(size - 1) |-> 0 - 1]),
                      heap |-> <<[v |-> startIdx,
                                  d |-> heuristic(start.cx, start.cy, b, ctx)]>>],
                     goalIdx, b, ctx)
        cells == Reverse(PrevChain(final.prev, goalIdx))
        path == [k \in 1..Len(cells) |-> CellPoint(cells[k], ctx)]
    IN  IF final.dist[goalIdx] = Infinity THEN NoPath
        ELSE path

\* findPath(a, b, ctx): null, or the centres of the cells from a's to b's with the
\* first and the last replaced by a and b
findPath(a, b, ctx) ==
    LET start == toCell(a.x, a.y, ctx)
        goal == toCell(b.x, b.y, ctx)
        size == ctx.cols * ctx.rows
        startIdx == start.cy * ctx.cols + start.cx
        goalIdx == goal.cy * ctx.cols + goal.cx
        final == AStarLoop(
                     [dist |-> [Tabulated([i \in 0..(size - 1) |-> Infinity])
                                   EXCEPT ![startIdx] = 0],
                      visited |-> {},
                      prev |-> Tabulated([i \in 0..(size - 1) |-> 0 - 1]),
                      heap |-> <<[v |-> startIdx,
                                  d |-> heuristic(start.cx, start.cy, b, ctx)]>>],
                     goalIdx, b, ctx)
        cells == Reverse(PrevChain(final.prev, goalIdx))
        path == [k \in 1..Len(cells) |-> CellPoint(cells[k], ctx)]
    IN  IF final.dist[goalIdx] = Infinity THEN NoPath
        ELSE [[path EXCEPT ![1] = [x |-> a.x, y |-> a.y]]
                 EXCEPT ![Len(path)] = [x |-> b.x, y |-> b.y]]

\* ---- generate ----

\* addRoad(aIdx, bIdx, preferPath) on the locals seen, roads, adjacency
addRoad(st, aIdx, bIdx, preferPath, settlements, pathConfig) ==
    IF aIdx = bIdx THEN st
    ELSE IF edgeKey(aIdx, bIdx) \in st.seen THEN st
    ELSE LET a == settlements[aIdx]
             b == settlements[bIdx]
             pathPoints == IF preferPath /\ pathConfig # NoPath
                           THEN findPath(a, b, pathConfig) ELSE NoPath
             points == IF Len(pathPoints) >= 2 THEN pathPoints
                       ELSE <<[x |-> a.x, y |-> a.y], [x |-> b.x, y |-> b.y]>>
             length == measurePath(points)
         IN  [st EXCEPT
                !.seen = @ \cup {edgeKey(aIdx, bIdx)},
                !.roads = Append(@, [x1 |-> a.x, y1 |-> a.y, x2 |-> b.x, y2 |-> b.y,
                                     length |-> length, aIndex |-> aIdx,
                                     bIndex |-> bIdx, points |-> points]),
                !.adjacency[aIdx] = Append(@, [to |-> bIdx, w |-> length]),
                !.adjacency[bIdx] = Append(@, [to |-> aIdx, w |-> length])]

GenConfig ==
    [kNearest |-> genOptions.kNearest,
     maxDistance |-> genOptions.maxDistance,
     forceMST |-> genOptions.forceMST,
     pathFactor |-> Max2(100, genOptions.pathFactor),
     pathConfig |-> createPathConfig(genOptions)]

GenStart ==
    [pc |-> "idle", mstEdges |-> <<>>, sortedCandidates |-> <<>>,
     mstNext |-> 1, candNext |-> 1,
     seen |-> {}, roads |-> <<>>, adjacency |-> <<>>, admitted |-> <<>>]

GenIdle ==
    /\ genSettlements = <<>>
    /\ genOptions = GenDefaults
    /\ gen = GenStart

\* the map: 3 x 2 grid cells of 2 x 2 pixels (mapWidth 6, mapHeight 4, gridStep 2)
GenMap == [cols |-> 3, rows |-> 2, step |-> 2]

\* settlements sit on the centres of the cells
GenSites ==
    {[x |-> GenMap.step * cx + 1, y |-> GenMap.step * cy + 1] :
        cx \in 0..(GenMap.cols - 1), cy \in 0..(GenMap.rows - 1)}

SiteRank(s) == s.y * GenMap.step * GenMap.cols + s.x

\* the lists of n distinct sites, in ascending rank
RECURSIVE SiteLists(_)
SiteLists(n) ==
    IF n = 0 THEN {<<>>}
    ELSE UNION {{Append(q, s) : s \in {t \in GenSites :
                                          n = 1 \/ SiteRank(q[n - 1]) < SiteRank(t)}} :
                q \in SiteLists(n - 1)}

\* the heightmap of the map: 0.5 everywhere but on `ridges`, the cell centres
\* raised to 1.0, and on `lakes`, those lowered to 0.0
HeightmapOf(ridges, lakes) ==
    LET width == GenMap.step * GenMap.cols
        height == GenMap.step * GenMap.rows
    IN  Tabulated([at \in 0..(width * height - 1) |->
            LET p == [x |-> at % width, y |-> at \div width]
            IN  IF p \in ridges THEN 100 ELSE IF p \in lakes THEN 0 ELSE 50])

Heightmaps ==
    {NoHeightmap} \cup
    {HeightmapOf(rl[1], rl[2]) : rl \in
        {q \in (SUBSET GenSites) \X (SUBSET GenSites) :
            /\ q[1] \cap q[2] = {}
            /\ Cardinality(q[1]) + Cardinality(q[2]) <= MaxRelief}}

GenOptionChoices ==
    { <<>>,
      [kNearest |-> 1],
      [maxDistance |-> 3],
      [forceMST |-> FALSE, pathFactor |-> 100] }

GenInit ==
    /\ \E n \in 0..GenNodes : \E sites \in SiteLists(n) :
          genSettlements = Tabulated([i \in 0..(n - 1) |-> sites[i + 1]])
    /\ \E o \in GenOptionChoices : \E hm \in Heightmaps :
          genOptions = [GenOptionsOver(o) EXCEPT
                           !.heightmap = hm,
                           !.mapWidth = GenMap.step * GenMap.cols,
                           !.mapHeight = GenMap.step * GenMap.rows,
                           !.gridStep = GenMap.step]
    /\ gen = GenStart

\* generate up to the first addRoad: lines 267-288
generateBegin ==
    /\ gen.pc = "idle"
    /\ LET n == Cardinality(DOMAIN genSettlements)
           candidates == IF n < 2 THEN <<>>
                         ELSE buildCandidateEdges(genSettlements, GenConfig.kNearest,
                                                  GenConfig.maxDistance)
       IN  IF candidates = <<>>
           THEN gen' = [gen EXCEPT !.pc = "done"]
           ELSE gen' = [gen EXCEPT
                          !.pc = "roads",
                          !.mstEdges = IF GenConfig.forceMST
                                       THEN buildMST(n, candidates) ELSE <<>>,
                          !.sortedCandidates = SortByLength(candidates),
                          !.adjacency = createAdjacency(n)]
    /\ UNCHANGED <<genSettlements, genOptions>>

\* one iteration of for (const e of mstEdges): lines 331-333
addMSTRoad ==
    /\ gen.pc = "roads"
    /\ gen.mstNext <= Len(gen.mstEdges)
    /\ LET e == gen.mstEdges[gen.mstNext]
       IN  gen' = [addRoad(gen, e.a, e.b, TRUE, genSettlements, GenConfig.pathConfig)
                      EXCEPT !.mstNext = @ + 1]
    /\ UNCHANGED <<genSettlements, genOptions>>

\* one iteration of for (const e of sortedCandidates): lines 336-346
tryCandidate ==
    /\ gen.pc = "roads"
    /\ gen.mstNext > Len(gen.mstEdges)
    /\ gen.candNext <= Len(gen.sortedCandidates)
    /\ LET e == gen.sortedCandidates[gen.candNext]
           existing == shortestPathLength(e.a, e.b, gen.adjacency)
       IN  IF edgeKey(e.a, e.b) \in gen.seen
           THEN gen' = [gen EXCEPT !.candNext = @ + 1]
           ELSE IF existing * 100 <= e.length * GenConfig.pathFactor
           THEN gen' = [gen EXCEPT !.candNext = @ + 1]
           ELSE gen' = [addRoad(gen, e.a, e.b, TRUE, genSettlements,
                                GenConfig.pathConfig)
                           EXCEPT !.candNext = @ + 1,
                                  !.admitted = Append(@, Len(gen.roads) + 1)]
    /\ UNCHANGED <<genSettlements, genOptions>>

\* return roads, line 348
generateReturn ==
    /\ gen.pc = "roads"
    /\ gen.mstNext > Len(gen.mstEdges)
    /\ gen.candNext > Len(gen.sortedCandidates)
    /\ gen' = [gen EXCEPT !.pc = "done"]
    /\ UNCHANGED <<genSettlements, genOptions>>

\* the pixels settlements stand on when two of them may share a grid cell: the
\* cell centres, and a corner pixel of the first and of the last cell
CellSites ==
    GenSites \cup {[x |-> 0, y |-> 0],
                   [x |-> GenMap.step * (GenMap.cols - 1), y |-> GenMap.step * (GenMap.rows - 1)]}

\* the lists of n distinct such pixels, in ascending rank
RECURSIVE CellSiteLists(_)
CellSiteLists(n) ==
    IF n = 0 THEN {<<>>}
    ELSE UNION {{Append(q, s) : s \in {t \in CellSites :
                                          n = 1 \/ SiteRank(q[n - 1]) < SiteRank(t)}} :
                q \in CellSiteLists(n - 1)}

\* no heightmap, the flat one, and those with a ridge or a lake on the middle cell
\* of the first row
CellHeightmaps ==
    LET middle == [x |-> GenMap.step + 1, y |-> 1]
    IN  {NoHeightmap, HeightmapOf({}, {}), HeightmapOf({middle}, {}),
         HeightmapOf({}, {middle})}

\* generateRoads: generate called with a gridStep from 1 on, the one of the world
\* build (gridStep: 1) among them
CellInit ==
    /\ \E n \in 2..MaxCellNodes : \E sites \in CellSiteLists(n) :
          genSettlements = Tabulated([i \in 0..(n - 1) |-> sites[i + 1]])
    /\ \E gridStep \in 1..GenMap.step : \E hm \in CellHeightmaps :
          genOptions = [GenDefaults EXCEPT
                           !.heightmap = hm,
                           !.mapWidth = GenMap.step * GenMap.cols,
                           !.mapHeight = GenMap.step * GenMap.rows,
                           !.gridStep = gridStep]
    /\ gen = GenStart

----------------------------------------------------------------------------
(* RoadPathfinder.buildPointPath, and the travel query of MapGenerator       *)
(* .moveToSettlement: shortestPath, then buildPointPath over its nodes.      *)
(* Coordinates are in half pixels.                                           *)

\* settlement k of the travel maps, and the settlement list of the graph
TravelSite(k) == [x |-> 4 * k + 1, y |-> 1]

TravelSettlements == [k \in DOMAIN pfGraph.adjacency |-> TravelSite(k)]

\* a road stored from settlement a to settlement b: straight, or bent through a
\* point off the row of the settlements
TravelRoad(a, b, bent) ==
    LET pa == TravelSite(a)
        pb == TravelSite(b)
        points == IF bent THEN <<pa, [x |-> 2 * (a + b) + 1, y |-> 1 + 2 * Abs(b - a)], pb>>
                  ELSE <<pa, pb>>
    IN  [x1 |-> pa.x, y1 |-> pa.y, x2 |-> pb.x, y2 |-> pb.y,
         length |-> measurePath(points), aIndex |-> a, bIndex |-> b, points |-> points]

\* the pairs that may have a road: neighbours in the row, and its two ends
TravelPairs ==
    <<>> \o [k \in 1..(PathNodes - 1) |-> <<k - 1, k>>]
         \o (IF PathNodes > 2 THEN <<<<0, PathNodes - 1>>>> ELSE <<>>)

\* the road lists with, for each of the first n pairs in turn, no road or one road,
\* stored in either direction, straight or bent
RECURSIVE TravelRoadLists(_)
TravelRoadLists(n) ==
    IF n = 0 THEN {<<>>}
    ELSE LET a == TravelPairs[n][1]
             b == TravelPairs[n][2]
         IN  UNION {{q, Append(q, TravelRoad(a, b, TRUE)), Append(q, TravelRoad(b, a, FALSE)),
                     Append(q, TravelRoad(b, a, TRUE))} :
                    q \in TravelRoadLists(n - 1)}

\* the road lists with, for each of the first n pairs in turn, no road, one road
\* or two roads of different lengths, the longer one first or last
RECURSIVE RouteRoadLists(_)
RouteRoadLists(n) ==
    IF n = 0 THEN {<<>>}
    ELSE LET a == TravelPairs[n][1]
             b == TravelPairs[n][2]
             short == TravelRoad(b, a, FALSE)
             long == TravelRoad(a, b, TRUE)
         IN  UNION {{q, Append(q, short), Append(q, long),
                     q \o <<short, long>>, q \o <<long, short>>} :
                    q \in RouteRoadLists(n - 1)}

\* buildGraph over a road list that may join a pair of settlements twice
RouteInit ==
    /\ pfRoads \in RouteRoadLists(Len(TravelPairs))
    /\ pfGraph = buildGraph(pfRoads, PathNodes)
    /\ pf = [pc |-> "idle"]

\* setupNavigation: the graph of the map's roads over its settlements
TravelInit ==
    /\ pfRoads \in TravelRoadLists(Len(TravelPairs))
    /\ pfGraph = buildGraph(pfRoads, PathNodes)
    /\ pf = [pc |-> "idle"]

\* the node sequences of up to MaxHops hops
RECURSIVE NodePaths(_)
NodePaths(n) ==
    IF n = 0 THEN {<<>>}
    ELSE LET shorter == NodePaths(n - 1)
         IN  shorter \cup {Append(q, v) : q \in {t \in shorter : Len(t) = n - 1},
                                          v \in 0..(PathNodes - 1)}

\* a lone node at the origin, whatever the settlement list
SinglePointAtOrigin(singleNode, settlements) == <<[x |-> 0, y |-> 0]>>

\* the path of a single node: its settlement, or the origin without one
SinglePoint(singleNode, settlements) ==
    IF singleNode \in DOMAIN settlements
    THEN <<[x |-> settlements[singleNode].x, y |-> settlements[singleNode].y]>>
    ELSE <<[x |-> 0, y |-> 0]>>

\* every point of the polyline, also after the first road
PointsToAddWhole(path, ordered) == ordered

\* pointsToAdd: the polyline without its first point once the path has begun
PointsToAdd(path, ordered) == IF path # <<>> THEN Tail(ordered) ELSE ordered

\* the for loop of buildPointPath from position i of nodePath (i counts from 0)
RECURSIVE PointPathFrom(_, _, _, _, _)
PointPathFrom(nodePath, roads, graph, i, path) ==
    IF i >= Len(nodePath) - 1 THEN path
    ELSE LET a == nodePath[i + 1]
             b == nodePath[i + 2]
             key == edgeKey(a, b)
         IN  IF key \notin DOMAIN graph.edgeToRoad THEN NoPath
             ELSE LET road == roads[graph.edgeToRoad[key] + 1]
                      basePoints == IF Len(road.points) >= 2 THEN road.points
                                    ELSE <<[x |-> road.x1, y |-> road.y1],
                                           [x |-> road.x2, y |-> road.y2]>>
                      isForward == road.aIndex = a
                      ordered == IF isForward THEN basePoints ELSE Reverse(basePoints)
                  IN  PointPathFrom(nodePath, roads, graph, i + 1,
                                    path \o PointsToAdd(path, ordered))

\* buildPointPath(nodePath, roads, graph, settlements); NoPath is null
buildPointPath(nodePath, roads, graph, settlements) ==
    IF nodePath = <<>> THEN NoPath
    ELSE IF Len(nodePath) = 1 THEN SinglePoint(nodePath[1], settlements)
    ELSE PointPathFrom(nodePath, roads, graph, 0, <<>>)

\* moveToSettlement once shortestPath has found a route: the point path of its nodes
travelPath ==
    /\ pf.pc = "done"
    /\ pf.result # NoResult
    /\ pf' = [pc |-> "built", query |-> TRUE, start |-> pf.start, end |-> pf.end,
              nodePath |-> pf.result.nodes, distance |-> pf.result.distance,
              path |-> buildPointPath(pf.result.nodes, pfRoads, pfGraph,
                                      TravelSettlements)]
    /\ UNCHANGED <<pfRoads, pfGraph>>

\* buildPointPath called on a node sequence of the caller's
pointPath(nodePath) ==
    /\ pf.pc = "idle"
    /\ pf' = [pc |-> "built", query |-> FALSE, start |-> 0 - 1, end |-> 0 - 1,
              nodePath |-> nodePath, distance |-> 0 - 1,
              path |-> buildPointPath(nodePath, pfRoads, pfGraph, TravelSettlements)]
    /\ UNCHANGED <<pfRoads, pfGraph>>

----------------------------------------------------------------------------
(* PlayerLayer (moveAlongPath, stopMovement, update, finishMovement) and      *)
(* MapGenerator.moveToSettlement.  Coordinates and distances are in tenths of *)
(* a pixel: at gameSpeed = 50 pixels a game day a frame of deltaMS            *)
(* milliseconds moves the marker timeSpeed * deltaMS / 2 tenths.  The         *)
(* settlements stand in a row and the roads are straight, so that every       *)
(* Math.sqrt of the walk is exact.  A movement driver is named by the number  *)
(* of the travel request that registered it.                                  *)

\* ticker.deltaMS of the frames rendered: 60 and 25 frames a second
FrameMs == {16, 40}

\* settlement k of the maps travelled
MoveSite(k) == [x |-> 20 * k + 5, y |-> 5]

MoveSettlements == [k \in 0..(MoveNodes - 1) |-> MoveSite(k)]

\* the straight road stored from settlement a to settlement b
MoveRoad(a, b) ==
    LET pa == MoveSite(a)
        pb == MoveSite(b)
    IN  [x1 |-> pa.x, y1 |-> pa.y, x2 |-> pb.x, y2 |-> pb.y,
         length |-> 20 * Abs(b - a), aIndex |-> a, bIndex |-> b, points |-> <<pa, pb>>]

\* the road lists with, for each pair of neighbours up to settlement n, no road or
\* the road between them, stored in either direction
RECURSIVE MoveRoadLists(_)
MoveRoadLists(n) ==
    IF n = 0 THEN {<<>>}
    ELSE UNION {{q, Append(q, MoveRoad(n - 1, n)), Append(q, MoveRoad(n, n - 1))} :
                q \in MoveRoadLists(n - 1)}

\* the while (heap.length) loop of shortestPath, run to its end
RECURSIVE shortestPathLoop(_, _)
shortestPathLoop(st, graph) ==
    IF st.heap = <<>> THEN st
    ELSE LET popped == HeapPop(st.heap)
             node == popped.node
             v == node.v
         IN  IF st.visited[v]
             THEN shortestPathLoop([st EXCEPT !.heap = popped.heap], graph)
             ELSE IF v = st.end
             THEN [st EXCEPT !.heap = popped.heap, !.visited[v] = TRUE]
             ELSE shortestPathLoop(
                      RelaxEdges([st EXCEPT !.heap = popped.heap, !.visited[v] = TRUE],
                                 graph.adjacency[v], 1, node),
                      graph)

\* shortestPath(start, end, graph) as one call; NoResult is null
shortestPath(start, end, graph) ==
    LET nodeCount == Cardinality(DOMAIN graph.adjacency)
    IN  IF start < 0 \/ end < 0 \/ start >= nodeCount \/ end >= nodeCount
           \/ nodeCount = 0
        THEN NoResult
        ELSE IF start = end THEN [nodes |-> <<start>>, distance |-> 0]
        ELSE LET st == shortestPathLoop(
                           [end |-> end,
                            dist |-> [n \in 0..(nodeCount - 1) |->
                                         IF n = start THEN 0 ELSE Infinity],
                            prev |-> [n \in 0..(nodeCount - 1) |-> 0 - 1],
                            visited |-> [n \in 0..(nodeCount - 1) |-> FALSE],
                            heap |-> <<[v |-> start, d |-> 0]>>],
                           graph)
                 distance == st.dist[end]
             IN  IF distance = Infinity THEN NoResult
                 ELSE [nodes |-> Reverse(PrevChain(st.prev, end)), distance |-> distance]

\* PlayerLayer.distance(a, b)
distance(a, b) == Isqrt((a.x - b.x) * (a.x - b.x) + (a.y - b.y) * (a.y - b.y))

\* isSamePoint(a, b): dx * dx + dy * dy < 0.01 square pixels, one square tenth
isSamePoint(a, b) == (a.x - b.x) * (a.x - b.x) + (a.y - b.y) * (a.y - b.y) < 1

\* the position applyPosition sets at t = progress / segLen
applyPosition(start, end, progress, segLen) ==
    [x |-> start.x + ((end.x - start.x) * progress) \div segLen,
     y |-> start.y + ((end.y - start.y) * progress) \div segLen]

\* findNearestSettlementIndex(x, y, settlements): the first settlement at the
\* least distance
findNearestSettlementIndex(pos, settlements) ==
    LET d2(k) == (settlements[k].x - pos.x) * (settlements[k].x - pos.x)
                 + (settlements[k].y - pos.y) * (settlements[k].y - pos.y)
    IN  CHOOSE k \in DOMAIN settlements :
            \A j \in DOMAIN settlements : d2(k) < d2(j) \/ (d2(k) = d2(j) /\ k <= j)

\* the sum of the segment lengths of a path, from segment i on (i counts from 0)
RECURSIVE PathLengthFrom(_, _)
PathLengthFrom(path, i) ==
    IF i >= Len(path) - 1 THEN 0
    ELSE distance(path[i + 1], path[i + 2]) + PathLengthFrom(path, i + 1)

\* setupNavigation: a new PlayerLayer at the spawn settlement, no movement
\* under way; and what the model remembers of the travel requests
PlayerAt(spawn) ==
    [pc |-> "play",
     pos |-> MoveSite(spawn),
     currentPath |-> <<>>,
     segmentIndex |-> 0,
     segmentProgress |-> 0,
     totalPathLength |-> 0,
     traveledDistance |-> 0,
     targetSettlementIndex |-> Null,
     onArrive |-> <<>>,            \* null, or the callback of request <<id>>
     tickerHandler |-> Null,       \* null, or the driver of request id
     ticker |-> {},                \* the drivers registered on app.ticker
     currentSettlementIndex |-> spawn,
     requests |-> 0,               \* moveToSettlement calls so far
     targets |-> <<>>,             \* their targetIndex, by request
     latest |-> 0,                 \* the latest request for an existing settlement
     preempted |-> {},             \* the requests under way when a later one came
     arrived |-> <<>>]             \* the requests whose arrival callback was invoked

MoveInit ==
    /\ pfRoads \in MoveRoadLists(MoveNodes - 1)
    /\ pfGraph = buildGraph(pfRoads, MoveNodes)
    /\ pf = [pc |-> "idle"]
    /\ \E spawn \in 0..(MoveNodes - 1) : mv = PlayerAt(spawn)

\* PlayerLayer.stopMovement()
stopMovement(p) ==
    IF p.tickerHandler # Null
    THEN [p EXCEPT !.ticker = @ \ {p.tickerHandler}, !.tickerHandler = Null]
    ELSE p

\* this.onArrive?.(): the callback moveToSettlement handed over sets
\* currentSettlementIndex to the target of its request
callOnArrive(p) ==
    IF p.onArrive = <<>> THEN p
    ELSE [p EXCEPT !.currentSettlementIndex = p.targets[p.onArrive[1]],
                   !.arrived = Append(@, p.onArrive[1])]

\* PlayerLayer.finishMovement()
endMovement(p) ==
    LET q == stopMovement(p)
    IN  callOnArrive([q EXCEPT
            !.pos = IF q.currentPath # <<>> THEN q.currentPath[Len(q.currentPath)] ELSE @,
            !.currentPath = <<>>,
            !.segmentIndex = 0,
            !.segmentProgress = 0,
            !.totalPathLength = 0,
            !.traveledDistance = 0,
            !.targetSettlementIndex = Null])

\* PlayerLayer.moveAlongPath(path, { targetSettlement, onArrive }) on behalf of
\* request id
moveAlongPath(p, path, targetSettlement, id) ==
    LET q == stopMovement(p)
    IN  IF path = <<>> THEN q
        ELSE LET r == [q EXCEPT !.targetSettlementIndex = targetSettlement,
                                !.onArrive = <<id>>,
                                !.currentPath = path,
                                !.segmentIndex = 0,
                                !.segmentProgress = 0,
                                !.traveledDistance = 0,
                                !.totalPathLength = PathLengthFrom(path, 0),
                                !.pos = path[1]]
             IN  IF Len(path) < 2 THEN endMovement(r)
                 ELSE [r EXCEPT !.tickerHandler = id, !.ticker = @ \cup {id}]

\* the while (remaining > 0 && segmentIndex < length - 1) loop of update
RECURSIVE walkPath(_, _)
walkPath(p, remaining) ==
    IF ~(remaining > 0 /\ p.segmentIndex < Len(p.currentPath) - 1) THEN p
    ELSE LET start == p.currentPath[p.segmentIndex + 1]
             end == p.currentPath[p.segmentIndex + 2]
             segLen == distance(start, end)
         IN  IF segLen = 0
             THEN walkPath([p EXCEPT !.segmentIndex = @ + 1, !.segmentProgress = 0],
                           remaining)
             ELSE LET distToEnd == segLen - p.segmentProgress
                  IN  IF remaining < distToEnd
                      THEN walkPath([p EXCEPT
                                       !.segmentProgress = @ + remaining,
                                       !.traveledDistance = @ + remaining,
                                       !.pos = applyPosition(start, end,
                                                   p.segmentProgress + remaining, segLen)],
                                    0)
                      ELSE walkPath([p EXCEPT
                                       !.traveledDistance = @ + distToEnd,
                                       !.segmentIndex = @ + 1,
                                       !.segmentProgress = 0,
                                       !.pos = end],
                                    remaining - distToEnd)

\* PlayerLayer.update(ticker), the time system injected, at time speed `speed`
updatePlayer(p, speed, deltaMS) ==
    IF Len(p.currentPath) < 2 THEN endMovement(p)
    ELSE IF speed = 0 THEN p
    ELSE LET q == walkPath(p, (speed * deltaMS) \div 2)
         IN  IF q.segmentIndex >= Len(q.currentPath) - 1 THEN endMovement(q) ELSE q

\* one frame of app.ticker: every driver registered is called, by age
RECURSIVE runDrivers(_, _, _, _)
runDrivers(p, drivers, speed, deltaMS) ==
    IF drivers = {} THEN p
    ELSE LET h == CHOOSE d \in drivers : \A e \in drivers : d <= e
         IN  runDrivers(IF h \in p.ticker THEN updatePlayer(p, speed, deltaMS) ELSE p,
                        drivers \ {h}, speed, deltaMS)

notMvVars == <<timeVars, calVars, pathVars, clsVars, genVars, sav, isl, place, build,
               stop, ero, ser>>

\* a frame of deltaMS milliseconds rendered
frame(deltaMS) ==
    /\ mv.pc = "play"
    /\ mv' = runDrivers(mv, mv.ticker, timeSpeed, deltaMS)
    /\ UNCHANGED notMvVars

\* MapGenerator.moveToSettlement(targetIndex) from its first line to its return
travelTo(targetIndex) ==
    /\ mv.pc = "play"
    /\ mv.requests < MaxRequests
    /\ LET id == mv.requests + 1
           settlements == MoveSettlements
           asked == [mv EXCEPT !.requests = id, !.targets = Append(@, targetIndex)]
       IN  IF targetIndex \notin DOMAIN settlements THEN mv' = asked
           ELSE LET seen == [asked EXCEPT
                               !.latest = id,
                               !.preempted = IF mv.tickerHandler # Null
                                             THEN @ \cup {mv.tickerHandler} ELSE @]
                    target == settlements[targetIndex]
                    playerPos == mv.pos
                IN  IF mv.currentSettlementIndex = targetIndex
                       /\ isSamePoint(playerPos, target)
                    THEN mv' = seen
                    ELSE LET p == stopMovement(seen)
                             startIdx == IF p.currentSettlementIndex # Null
                                         THEN p.currentSettlementIndex
                                         ELSE findNearestSettlementIndex(playerPos,
                                                                         settlements)
                             route == shortestPath(startIdx, targetIndex, pfGraph)
                             built == buildPointPath(route.nodes, pfRoads, pfGraph,
                                                     settlements)
                             path == IF isSamePoint(playerPos, built[1]) THEN built
                                     ELSE <<playerPos>> \o built
                         IN  IF route = NoResult THEN mv' = p
                             ELSE IF built = NoPath THEN mv' = p
                             ELSE mv' = moveAlongPath(p, path, targetIndex, id)
    /\ UNCHANGED notMvVars

----------------------------------------------------------------------------
(* Save and load: MapGenerator.createSavePayload / loadFromSave,            *)
(* RoadSerializer, World.createSaveData / loadFromSave, useWorld.saveWorld  *)
(* / loadLatestSave.  Coordinates are in half pixels, so that the pixel     *)
(* centres ix + 0.5 of the settlements are the odd integers.                *)

\* null where a settlement index is expected, undefined where a number is
UndefinedNumber == 0 - Infinity

\* the outcome of a call: a value, or a RangeError thrown
Returned(v) == <<v>>
Thrown == <<>>

\* a Float32Array element keeps Float32Bits significant bits of what is stored
Float32Bits == 24

RECURSIVE Pow2(_)
Pow2(k) == IF k = 0 THEN 1 ELSE 2 * Pow2(k - 1)

\* the least integer that does not fit in them
Float32Limit == Pow2(Float32Bits)

\* n >= 0 rounded to a multiple of ulp, ties to the even multiple
RECURSIVE FroundAt(_, _)
FroundAt(n, ulp) ==
    IF n \div ulp >= Float32Limit THEN FroundAt(n, 2 * ulp)
    ELSE LET q == n \div ulp
             r == n % ulp
         IN  IF 2 * r < ulp \/ (2 * r = ulp /\ q % 2 = 0) THEN q * ulp
             ELSE (q + 1) * ulp

Fround(n) == IF n < 0 THEN 0 - FroundAt(0 - n, 1) ELSE FroundAt(n, 1)

\* flatPoints[idx] = v: a store past the end of a typed array is dropped
WriteAt(flat, idx, v) ==
    IF idx >= 0 /\ idx < Len(flat) THEN [flat EXCEPT ![idx + 1] = Fround(v)] ELSE flat

\* flatPoints[idx]: a read outside a typed array is undefined
ReadAt(flat, idx) ==
    IF idx >= 0 /\ idx < Len(flat) THEN flat[idx + 1] ELSE UndefinedNumber

\* road.points is missing: the record has no such field
HasPoints(road) == "points" \in DOMAIN road

\* totalPoints += road.points?.length ?? 2
RECURSIVE TotalPoints(_)
TotalPoints(roads) ==
    IF roads = <<>> THEN 0
    ELSE (IF HasPoints(Head(roads)) THEN Len(Head(roads).points) ELSE 2)
         + TotalPoints(Tail(roads))

RECURSIVE FlattenPoints(_, _, _)
FlattenPoints(points, flat, offset) ==
    IF points = <<>> THEN flat
    ELSE FlattenPoints(Tail(points),
                       WriteAt(WriteAt(flat, offset * 2, Head(points).x),
                               offset * 2 + 1, Head(points).y),
                       offset + 1)

\* the pointsOffset of a road whose points end before `offset`
PointsOffsetPastEnd(offset, pointsCount) == offset

PointsOffset(offset, pointsCount) == offset - pointsCount

RECURSIVE SerializeLoop(_, _, _, _)
SerializeLoop(roads, flat, metadata, offset) ==
    IF roads = <<>> THEN [metadata |-> metadata, pointsData |-> [floats |-> flat, tail |-> 0]]
    ELSE LET road == Head(roads)
             points == IF HasPoints(road) /\ Len(road.points) >= 2 THEN road.points
                       ELSE <<[x |-> road.x1, y |-> road.y1], [x |-> road.x2, y |-> road.y2]>>
             pointsCount == Len(points)
             end == offset + pointsCount
         IN  SerializeLoop(Tail(roads),
                           FlattenPoints(points, flat, offset),
                           Append(metadata,
                                  [x1 |-> road.x1, y1 |-> road.y1, x2 |-> road.x2,
                                   y2 |-> road.y2, length |-> road.length,
                                   aIndex |-> road.aIndex, bIndex |-> road.bIndex,
                                   pointsOffset |-> PointsOffset(end, pointsCount),
                                   pointsCount |-> pointsCount]),
                           end)

\* RoadSerializer.serialize: a buffer is its whole floats and the bytes left over
serialize(roads) ==
    IF roads = <<>> THEN [metadata |-> <<>>, pointsData |-> [floats |-> <<>>, tail |-> 0]]
    ELSE SerializeLoop(roads, [i \in 1..(TotalPoints(roads) * 2) |-> 0], <<>>, 0)

\* RoadSerializer.deserialize: new Float32Array(buffer) throws a RangeError when the
\* byte length is not a multiple of 4, and nothing else is checked
deserialize(data) ==
    IF data.pointsData.tail # 0 THEN Thrown
    ELSE LET flatPoints == data.pointsData.floats
         IN  Returned(Tabulated([k \in 1..Len(data.metadata) |->
                LET meta == data.metadata[k]
                IN  [x1 |-> meta.x1, y1 |-> meta.y1, x2 |-> meta.x2, y2 |-> meta.y2,
                     length |-> meta.length, aIndex |-> meta.aIndex,
                     bIndex |-> meta.bIndex,
                     points |-> [i \in 1..meta.pointsCount |->
                        [x |-> ReadAt(flatPoints, (meta.pointsOffset + i - 1) * 2),
                         y |-> ReadAt(flatPoints, (meta.pointsOffset + i - 1) * 2 + 1)]]]]))

\* road k of a list handed to serialize alone, from (4k + 1, 1) to (4k + 5, 1): without
\* a points field, or with 0, 1, 2 or 3 points
SerShapes == {"missing", "empty", "single", "straight", "bent"}

SerRoad(k, shape) ==
    LET a == [x |-> 4 * k + 1, y |-> 1]
        b == [x |-> 4 * k + 5, y |-> 1]
        ends == [x1 |-> a.x, y1 |-> a.y, x2 |-> b.x, y2 |-> b.y, length |-> 4,
                 aIndex |-> k, bIndex |-> k + 1]
        WithPoints(points) ==
            [x1 |-> a.x, y1 |-> a.y, x2 |-> b.x, y2 |-> b.y, length |-> 4,
             aIndex |-> k, bIndex |-> k + 1, points |-> points]
    IN  IF shape = "missing" THEN ends
        ELSE IF shape = "empty" THEN WithPoints(<<>>)
        ELSE IF shape = "single" THEN WithPoints(<<a>>)
        ELSE IF shape = "straight" THEN WithPoints(<<a, b>>)
        ELSE WithPoints(<<a, [x |-> 4 * k + 3, y |-> 3], b>>)

\* the road lists of up to n roads, each of any shape
RECURSIVE SerRoadLists(_)
SerRoadLists(n) ==
    IF n = 0 THEN {<<>>}
    ELSE LET shorter == SerRoadLists(n - 1)
         IN  shorter \cup {Append(q, SerRoad(n - 1, shape)) :
                              q \in {t \in shorter : Len(t) = n - 1}, shape \in SerShapes}

SerInit ==
    \E roads \in SerRoadLists(MaxSerRoads) : ser = [pc |-> "roads", roads |-> roads]

notSerVars == <<timeVars, calVars, pathVars, clsVars, genVars, sav, isl, place, build,
                stop, mv, ero>>

\* RoadSerializer.serialize(roads) called on the list
serializeRoads ==
    /\ ser.pc = "roads"
    /\ ser' = [pc |-> "serialized", roads |-> ser.roads, data |-> serialize(ser.roads)]
    /\ UNCHANGED notSerVars

\* ... and the next list taken up
serializeNext ==
    /\ ser.pc = "serialized"
    /\ \E roads \in SerRoadLists(MaxSerRoads) : ser' = [pc |-> "roads", roads |-> roads]
    /\ UNCHANGED notSerVars

\* the settlement records without their reactive wrappers
plainSettlements(settlements) ==
    [k \in 1..Len(settlements) |->
        LET s == settlements[k]
        IN  [x |-> s.x, y |-> s.y, elevation |-> s.elevation,
             suitability |-> s.suitability, islandId |-> s.islandId,
             islandArea |-> s.islandArea, roadDegree |-> s.roadDegree,
             secondHopReach |-> s.secondHopReach, cityScore |-> s.cityScore,
             category |-> s.category]]

\* MapGenerator.createSavePayload, of a map that has been rendered; the optional
\* player is a sequence of at most one record
createSavePayload(w) ==
    [version |-> 2,
     width |-> w.width,
     height |-> w.height,
     map |-> [heightmap |-> [floats |-> [i \in 1..Len(w.heightmap) |-> Fround(w.heightmap[i])],
                             tail |-> 0],
              settlements |-> plainSettlements(w.settlements),
              roadsData |-> serialize(w.roads)],
     player |-> <<[x |-> w.player.x, y |-> w.player.y,
                   currentSettlementIndex |-> w.currentSettlementIndex]>>]

\* TimeSystem.getState
getState == [totalDays |-> totalDays, timeSpeed |-> timeSpeed]

\* MapGenerator.pickSpawnSettlementIndex: the first settlement of the best score, in
\* thousandths; indices count from 0
SpawnScore(s, width, height) ==
    LET dist == Hypot(s.x - width, s.y - height)
        maxDist == Max2(2000, Hypot(2 * width, 2 * height))
        categoryBoost == IF s.category = "city" THEN 600
                         ELSE IF s.category = "town" THEN 300 ELSE 0
    IN  s.cityScore * 10 + categoryBoost - (dist * 400) \div maxDist

pickSpawnSettlementIndex(settlements, width, height) ==
    IF settlements = <<>> THEN Null
    ELSE LET score == Tabulated([k \in 1..Len(settlements) |->
                                    SpawnScore(settlements[k], width, height)])
         IN  (CHOOSE k \in 1..Len(settlements) :
                \A j \in 1..Len(settlements) :
                    score[j] < score[k] \/ (score[j] = score[k] /\ k <= j)) - 1

\* MapGenerator.renderMap with setupNavigation: the map and the player at the spawn
renderMap(heightmap, settlements, roads, width, height) ==
    LET spawnIdx == pickSpawnSettlementIndex(settlements, width, height)
    IN  [heightmap |-> heightmap, settlements |-> settlements, roads |-> roads,
         width |-> width, height |-> height,
         player |-> IF spawnIdx = Null THEN [x |-> 0, y |-> 0]
                    ELSE [x |-> settlements[spawnIdx + 1].x,
                          y |-> settlements[spawnIdx + 1].y],
         currentSettlementIndex |-> spawnIdx]

\* MapGenerator.loadFromSave: no field of the record is checked
loadFromSave(save) ==
    IF save.map.heightmap.tail # 0 THEN Thrown
    ELSE LET roads == deserialize(save.map.roadsData)
         IN  IF roads = Thrown THEN Thrown
             ELSE LET w == renderMap(save.map.heightmap.floats, save.map.settlements,
                                     roads[1], save.width, save.height)
                  IN  IF save.player = <<>> THEN Returned(w)
                      ELSE Returned([w EXCEPT
                              !.player = [x |-> save.player[1].x, y |-> save.player[1].y],
                              !.currentSettlementIndex =
                                  save.player[1].currentSettlementIndex])

\* ---- the worlds that are saved and loaded ----

\* settlement k of the model's maps: pixel (2k, 0), classified
SavSettlement(k, adjacency) ==
    [x |-> 4 * k + 1, y |-> 1,
     elevation |-> 40 + 5 * k, suitability |-> 90 - 10 * k,
     islandId |-> 0, islandArea |-> 2 * SavNodes,
     roadDegree |-> Cardinality(adjacency[k]),
     secondHopReach |-> countSecondHop(k, adjacency),
     cityScore |-> IF k % 3 = 1 THEN 70 ELSE IF k % 3 = 2 THEN 40 ELSE 20,
     category |-> IF k % 3 = 1 THEN "city" ELSE IF k % 3 = 2 THEN "town" ELSE "village"]

\* a road from settlement k to settlement k + 1: straight, or through pixel (2k + 1, 1)
SavRoad(k, bent) ==
    LET a == [x |-> 4 * k + 1, y |-> 1]
        b == [x |-> 4 * k + 5, y |-> 1]
        points == IF bent THEN <<a, [x |-> 4 * k + 3, y |-> 3], b>> ELSE <<a, b>>
    IN  [x1 |-> a.x, y1 |-> a.y, x2 |-> b.x, y2 |-> b.y, length |-> measurePath(points),
         aIndex |-> k, bIndex |-> k + 1, points |-> points]

\* the road lists over settlements 0..(count - 1): each neighbouring pair is joined
\* by no road, a straight one or a bent one
RECURSIVE SavRoadLists(_)
SavRoadLists(count) ==
    IF count <= 1 THEN {<<>>}
    ELSE UNION {{q, Append(q, SavRoad(count - 2, FALSE)), Append(q, SavRoad(count - 2, TRUE))} :
                q \in SavRoadLists(count - 1)}

SavWorld(count, roads) ==
    LET adjacency == buildAdjacency(count, {<<roads[i].aIndex, roads[i].bIndex>> :
                                               i \in 1..Len(roads)})
    IN  renderMap([i \in 1..(4 * SavNodes) |-> 50],
                  [k \in 1..count |-> SavSettlement(k - 1, adjacency)],
                  roads, 2 * SavNodes, 2)

\* the fields a load is to bring back
WorldFields(w, time) ==
    [settlements |-> w.settlements, roads |-> w.roads,
     totalDays |-> time.totalDays, timeSpeed |-> time.timeSpeed,
     player |-> w.player, currentSettlementIndex |-> w.currentSettlementIndex]

notSavTimeVars == <<calVars, pathVars, clsVars, genVars, isl, place, build, stop, mv, ero, ser>>

\* World.initialize: a generated map, the player at the spawn, a new TimeSystem
SavInit ==
    /\ TimeInit
    /\ \E count \in 0..SavNodes : \E roads \in SavRoadLists(count) :
          sav = [worldRef |-> <<SavWorld(count, roads)>>,
                 moving |-> Null,       \* the settlement the player is travelling to
                 store |-> <<>>,        \* MapPersistence.latest()
                 saved |-> <<>>,        \* the fields of the world when store was written
                 foreign |-> FALSE,     \* store is not what saveWorld wrote
                 others |-> 0,          \* records that came from elsewhere so far
                 outcome |-> "none",    \* of loadLatestSave since store was written
                 faithful |-> FALSE,    \* the world it returned with has the fields `saved`
                 changed |-> FALSE]     \* the world it replaced differed from `saved`

\* a tick of the world's time service that completes a day: advanceTime(1); the
\* tick's lastUpdateTime and accumulatedTime are no part of a saved record
SavAdvance ==
    /\ sav.worldRef # <<>>
    /\ totalDays < MaxSavDays
    /\ advanceTime(1)
    /\ UNCHANGED <<timeSpeed, lastUpdateTime, accumulatedTime, isRunning, obs, sav>>

\* TimeSystem.setTimeSpeed on the world's time service
SavSetSpeed(speed) ==
    /\ sav.worldRef # <<>>
    /\ setTimeSpeed(speed)
    /\ UNCHANGED sav

\* MapGenerator.moveToSettlement(target) along one road: PlayerLayer.moveAlongPath
\* puts the marker on the road, the index stays until the arrival
moveToSettlement(target) ==
    /\ sav.worldRef # <<>>
    /\ sav.moving = Null
    /\ LET w == sav.worldRef[1]
       IN  /\ w.currentSettlementIndex # Null
           /\ target # w.currentSettlementIndex
           /\ \E i \in 1..Len(w.roads) :
                 /\ {w.roads[i].aIndex, w.roads[i].bIndex}
                        = {w.currentSettlementIndex, target}
                 /\ sav' = [sav EXCEPT
                              !.moving = target,
                              !.worldRef[1].player = w.roads[i].points[2]]
    /\ UNCHANGED timeVars

\* PlayerLayer.finishMovement and the onArrive callback of moveToSettlement
finishMovement ==
    /\ sav.worldRef # <<>>
    /\ sav.moving # Null
    /\ LET target == sav.worldRef[1].settlements[sav.moving + 1]
       IN  sav' = [sav EXCEPT
                     !.moving = Null,
                     !.worldRef[1].player = [x |-> target.x, y |-> target.y],
                     !.worldRef[1].currentSettlementIndex = sav.moving]
    /\ UNCHANGED timeVars

\* useWorld.saveWorld: World.createSaveData laid out as a MapSaveRecord
saveWorld ==
    /\ sav.worldRef # <<>>
    /\ LET payload == createSavePayload(sav.worldRef[1])
       IN  sav' = [sav EXCEPT
                     !.store = <<[version |-> payload.version, width |-> payload.width,
                                  height |-> payload.height, map |-> payload.map,
                                  player |-> payload.player, time |-> getState]>>,
                     !.saved = <<WorldFields(sav.worldRef[1], getState)>>,
                     !.foreign = FALSE,
                     !.outcome = "none",
                     !.faithful = FALSE,
                     !.changed = FALSE]
    /\ UNCHANGED timeVars

\* the last bytes of a buffer are lost
Truncated(buffer, bytes) ==
    LET left == 4 * Len(buffer.floats) + buffer.tail - bytes
    IN  [floats |-> SubSeq(buffer.floats, 1, left \div 4), tail |-> left % 4]

\* the number of point pairs a buffer holds in whole
StoredPairs(buffer) == Len(buffer.floats) \div 2

\* the records that differ from `rec` in what a load is to reject: a version that no
\* writer used, an entry of the metadata that runs past the stored pairs, a
\* truncated buffer
ForeignRecords(rec) ==
    LET data == rec.map.roadsData
    IN  {[rec EXCEPT !.version = 3]}
        \cup {[rec EXCEPT !.map.roadsData.metadata[k].pointsCount = @ + 1] :
                 k \in {j \in 1..Len(data.metadata) :
                          data.metadata[j].pointsOffset + data.metadata[j].pointsCount + 1
                              > StoredPairs(data.pointsData)}}
        \cup {[rec EXCEPT !.map.roadsData.metadata[k].pointsOffset = @ + 1] :
                 k \in {j \in 1..Len(data.metadata) :
                          data.metadata[j].pointsOffset + 1 + data.metadata[j].pointsCount
                              > StoredPairs(data.pointsData)}}
        \cup {[rec EXCEPT !.map.roadsData.pointsData = Truncated(@, bytes)] :
                 bytes \in {b \in 1..MaxLostBytes : b <= 4 * Len(data.pointsData.floats)}}

\* the record store comes to hold such a record in place of the saved one
ForeignRecord ==
    /\ sav.store # <<>>
    /\ ~sav.foreign
    /\ sav.others < MaxForeign
    /\ \E rec \in ForeignRecords(sav.store[1]) :
          sav' = [sav EXCEPT !.store = <<rec>>, !.foreign = TRUE, !.outcome = "none",
                             !.others = @ + 1,
                             !.faithful = FALSE, !.changed = FALSE]
    /\ UNCHANGED timeVars

\* useWorld.loadLatestSave: false without a record; else destroyWorld, then
\* World.loadFromSave (TimeSystem.loadState, then the map), whose exception leaves
\* no world behind
loadLatestSave ==
    IF sav.store = <<>>
    THEN /\ sav' = [sav EXCEPT !.outcome = "nosave"]
         /\ UNCHANGED timeVars
    ELSE \E latestSave \in {sav.store[1]} : \E loaded \in {loadFromSave(latestSave)} :
             /\ loadState(latestSave.time.totalDays, latestSave.time.timeSpeed)
             /\ sav' = IF loaded = Thrown
                       THEN [sav EXCEPT !.worldRef = <<>>, !.moving = Null,
                                        !.outcome = "rejected", !.faithful = FALSE]
                       ELSE [sav EXCEPT
                               !.worldRef = loaded, !.moving = Null,
                               !.outcome = "loaded",
                               !.faithful =
                                   WorldFields(loaded[1], [totalDays |-> totalDays',
                                                           timeSpeed |-> timeSpeed'])
                                       = sav.saved[1],
                               !.changed = \/ sav.worldRef = <<>>
                                           \/ WorldFields(sav.worldRef[1], getState)
                                                 # sav.saved[1]]

----------------------------------------------------------------------------
(* SettlementGenerator.labelIslands.  Heights are in hundredths. *)

\* the maps that are labelled: IslMap.cols x IslMap.rows cells, each at one of the
\* heights around the coast threshold
IslMap == [cols |-> 4, rows |-> 3, heights |-> {20, 35}, coastThreshold |-> 35]

\* a strict comparison with the coast threshold
isLandStrict(heightmap, idx, coastThreshold) == heightmap[idx] > coastThreshold

\* isLand(idx): (heightmap[idx] ?? 0) >= coastThreshold
isLand(heightmap, idx, coastThreshold) == heightmap[idx] >= coastThreshold

IslInit ==
    \E heightmap \in [0..(IslMap.cols * IslMap.rows - 1) -> IslMap.heights] :
        isl = [pc |-> "scan",
               heightmap |-> heightmap,
               width |-> IslMap.cols,
               height |-> IslMap.rows,
               coastThreshold |-> IslMap.coastThreshold,
               islandIds |-> [i \in 0..(IslMap.cols * IslMap.rows - 1) |-> 0 - 1],
               islandAreas |-> <<>>,
               stack |-> <<>>,         \* stackX and stackY, the top last
               scan |-> 0,             \* y * width + x of the two for loops
               islandId |-> 0 - 1,
               area |-> 0,
               maxArea |-> 0]

\* the body of the for loops at a cell that is water or already labelled: next cell
labelSkip ==
    /\ isl.pc = "scan"
    /\ isl.scan < isl.width * isl.height
    /\ \/ ~isLand(isl.heightmap, isl.scan, isl.coastThreshold)
       \/ isl.islandIds[isl.scan] # 0 - 1
    /\ isl' = [isl EXCEPT !.scan = @ + 1]

\* ... at an unlabelled land cell: a new island id, the cell pushed
labelStart ==
    /\ isl.pc = "scan"
    /\ isl.scan < isl.width * isl.height
    /\ isLand(isl.heightmap, isl.scan, isl.coastThreshold)
    /\ isl.islandIds[isl.scan] = 0 - 1
    /\ isl' = [isl EXCEPT
                 !.pc = "fill",
                 !.islandId = Len(isl.islandAreas),
                 !.area = 0,
                 !.stack = <<<<isl.scan % isl.width, isl.scan \div isl.width>>>>]

\* the neighbours of (cx, cy) in the order they are pushed
Pushed(cx, cy, width, height) ==
    (IF cx > 0 THEN <<<<cx - 1, cy>>>> ELSE <<>>)
    \o (IF cx < width - 1 THEN <<<<cx + 1, cy>>>> ELSE <<>>)
    \o (IF cy > 0 THEN <<<<cx, cy - 1>>>> ELSE <<>>)
    \o (IF cy < height - 1 THEN <<<<cx, cy + 1>>>> ELSE <<>>)

\* one turn of the while loop: pop a cell, label it and push its neighbours
labelFill ==
    /\ isl.pc = "fill"
    /\ isl.stack # <<>>
    /\ LET top == isl.stack[Len(isl.stack)]
           rest == SubSeq(isl.stack, 1, Len(isl.stack) - 1)
           cx == top[1]
           cy == top[2]
           cIdx == cy * isl.width + cx
       IN  IF isl.islandIds[cIdx] # 0 - 1
              \/ ~isLand(isl.heightmap, cIdx, isl.coastThreshold)
           THEN isl' = [isl EXCEPT !.stack = rest]
           ELSE isl' = [isl EXCEPT
                          !.islandIds[cIdx] = isl.islandId,
                          !.area = @ + 1,
                          !.stack = rest \o Pushed(cx, cy, isl.width, isl.height)]

\* the stack is empty: islandAreas.push(area), next cell
labelClose ==
    /\ isl.pc = "fill"
    /\ isl.stack = <<>>
    /\ isl' = [isl EXCEPT
                 !.pc = "scan",
                 !.islandAreas = Append(@, isl.area),
                 !.scan = @ + 1]

\* the loops are over: maxArea and the return
labelReturn ==
    /\ isl.pc = "scan"
    /\ isl.scan = isl.width * isl.height
    /\ isl' = [isl EXCEPT
                 !.pc = "done",
                 !.maxArea = IF isl.islandAreas = <<>> THEN 1
                             ELSE SetMax({isl.islandAreas[i] :
                                             i \in 1..Len(isl.islandAreas)})]

----------------------------------------------------------------------------
(* SettlementGenerator.generate.  Coordinates and distances are in half pixels, *)
(* heights in hundredths, suitabilities in thousandths.                      *)

\* the maps that are settled, and the options that vary
PlaceMap == [cols |-> 4, rows |-> 3]
PlaceStrides == {1, 2}
PlaceDistances == {1, 3, 5}     \* minDistance 0.5, 1.5 and 2.5 pixels

\* calculateSuitability
calculateSuitability(h, coastThreshold, fadeOutHeight) ==
    IF h < coastThreshold THEN 0
    ELSE IF h >= fadeOutHeight THEN 0
    ELSE 1000 - Max2(0, Min2(1000, ((h - coastThreshold) * 1000)
                                       \div (fadeOutHeight - coastThreshold)))

\* createSpatialIndex
createSpatialIndex(width, height, cellSize) ==
    LET cols == Max2(1, CeilDiv(2 * width, cellSize))
        rows == Max2(1, CeilDiv(2 * height, cellSize))
    IN  [cellSize |-> cellSize, cols |-> cols, rows |-> rows,
         buckets |-> [b \in 0..(cols * rows - 1) |-> <<>>]]

\* getBucketIndex
getBucketIndex(x, y, index) ==
    LET cx == Max2(0, Min2(index.cols - 1, x \div index.cellSize))
        cy == Max2(0, Min2(index.rows - 1, y \div index.cellSize))
    IN  cy * index.cols + cx

\* the buckets within `reach` of the bucket of (x, y) that lie on the map
BucketsAround(x, y, index, reach) ==
    LET cx == x \div index.cellSize
        cy == y \div index.cellSize
    IN  {(cy + dy) * index.cols + (cx + dx) :
            <<dx, dy>> \in {d \in ((0 - reach)..reach) \X ((0 - reach)..reach) :
                              /\ cx + d[1] >= 0 /\ cy + d[2] >= 0
                              /\ cx + d[1] < index.cols /\ cy + d[2] < index.rows}}

\* no settlement of the buckets B is closer to (x, y) than minDistance
ClearOf(B, x, y, minDistance, settlements, index) ==
    \A b \in B : \A k \in 1..Len(index.buckets[b]) :
        LET s == settlements[index.buckets[b][k] + 1]
        IN  ~((s.x - x) * (s.x - x) + (s.y - y) * (s.y - y) < minDistance * minDistance)

\* a scan of the candidate's own bucket only
canPlaceOwnBucket(x, y, minDistance, settlements, index) ==
    IF minDistance <= 0 THEN TRUE
    ELSE ClearOf(BucketsAround(x, y, index, 0), x, y, minDistance, settlements, index)

\* canPlace: the 3 x 3 buckets around the candidate
canPlace(x, y, minDistance, settlements, index) ==
    IF minDistance <= 0 THEN TRUE
    ELSE ClearOf(BucketsAround(x, y, index, 1), x, y, minDistance, settlements, index)

\* addToSpatialIndex
addToSpatialIndex(x, y, settlementIndex, index) ==
    [index EXCEPT !.buckets[getBucketIndex(x, y, index)] = Append(@, settlementIndex)]

\* the heightmaps: habitable at 0.50 everywhere, or with the sea at the first cell,
\* or with a summit in the second row
PlaceHeightmaps ==
    LET flat == [i \in 0..(PlaceMap.cols * PlaceMap.rows - 1) |-> 50]
    IN  {flat, [flat EXCEPT ![0] = 20], [flat EXCEPT ![PlaceMap.cols + 1] = 95]}

\* generate's locals before the loops; the island data of labelIslands only scales
\* the probability of a cell, which stays positive wherever the suitability is
PlaceInit ==
    \E heightmap \in PlaceHeightmaps, stride \in PlaceStrides,
       minDistance \in PlaceDistances, maxSettlements \in {0, MaxPlaced, 800} :
        place = [pc |-> "scan",
                 heightmap |-> heightmap,
                 width |-> PlaceMap.cols,
                 height |-> PlaceMap.rows,
                 coastThreshold |-> 35,
                 fadeOutHeight |-> 92,
                 stride |-> stride,
                 minDistance |-> minDistance,
                 maxSettlements |-> maxSettlements,
                 settlements |-> <<>>,
                 spatialIndex |-> createSpatialIndex(PlaceMap.cols, PlaceMap.rows,
                                                     Max2(minDistance, 2)),
                 x |-> 0,
                 y |-> 0,
                 rejected |-> 0]     \* candidates that canPlace turned down

\* the loop variables after the cell (x, y)
NextCell(p) ==
    IF p.x + p.stride < p.width THEN [p EXCEPT !.x = @ + p.stride]
    ELSE [p EXCEPT !.x = 0, !.y = @ + p.stride]

PlaceSuitability ==
    calculateSuitability(place.heightmap[place.y * place.width + place.x],
                         place.coastThreshold, place.fadeOutHeight)

\* a cell of suitability 0: continue
placeSkip ==
    /\ place.pc = "scan"
    /\ place.y < place.height
    /\ PlaceSuitability <= 0
    /\ place' = NextCell(place)

\* rng() is not below the probability of the cell
placeMiss ==
    /\ place.pc = "scan"
    /\ place.y < place.height
    /\ PlaceSuitability > 0
    /\ place' = NextCell(place)

\* rng() is below it, and canPlace turns the pixel centre down
placeReject ==
    /\ place.pc = "scan"
    /\ place.y < place.height
    /\ PlaceSuitability > 0
    /\ ~canPlace(2 * place.x + 1, 2 * place.y + 1, place.minDistance,
                 place.settlements, place.spatialIndex)
    /\ place' = [NextCell(place) EXCEPT !.rejected = Min2(@ + 1, 1)]

\* ... or lets it through: the settlement is pushed and indexed, and generate
\* returns once there are maxSettlements of them
placeSettle ==
    /\ place.pc = "scan"
    /\ place.y < place.height
    /\ PlaceSuitability > 0
    /\ LET worldX == 2 * place.x + 1
           worldY == 2 * place.y + 1
           settlements ==
               Append(place.settlements,
                      [x |-> worldX, y |-> worldY,
                       elevation |-> place.heightmap[place.y * place.width + place.x],
                       suitability |-> PlaceSuitability])
       IN  /\ canPlace(worldX, worldY, place.minDistance, place.settlements,
                       place.spatialIndex)
           /\ place' = [(IF Len(settlements) >= place.maxSettlements
                         THEN [place EXCEPT !.pc = "done"] ELSE NextCell(place))
                        EXCEPT
                          !.settlements = settlements,
                          !.spatialIndex = addToSpatialIndex(worldX, worldY,
                                               Len(settlements) - 1, place.spatialIndex)]

\* the loops are over: return settlements
placeReturn ==
    /\ place.pc = "scan"
    /\ place.y >= place.height
    /\ place' = [place EXCEPT !.pc = "done"]

----------------------------------------------------------------------------
(* The world build: MapGenerator.initialize, HeightmapGenerator                *)
(* .generateWithDomainWarping / generate / finalizeHeightmap, and the calls of *)
(* SettlementGenerator.generate. A heightmap is the sequence of the           *)
(* transformations that made it; every later product records what it was      *)
(* computed from.                                                              *)

\* erosion: { erosionIterations: 100 } of MapGenerator.generateHeightmap
MapErosionIterations == 100

\* the erosion.erosionIterations a HeightmapConfig may carry: none, or a number
RequestedIterations ==
    {<<>>} \cup {<<n>> : n \in (0..MaxPasses) \cup {MapErosionIterations}}

\* Math.max(1, Math.floor(config.erosion?.erosionIterations ?? 1))
ConfiguredIterations(requested) ==
    IF requested = <<>> THEN 1 ELSE Max2(1, requested[1])

\* nothing computed yet
NotBuilt == <<>>

\* initialize up to generateHeightmap: the generator is constructed with its config
BuildInit ==
    build \in {[pc |-> "noise", entry |-> entry, enabled |-> enabled,
                iterations |-> ConfiguredIterations(requested), pass |-> 0,
                steps |-> <<>>, heightmap |-> NotBuilt, islands |-> NotBuilt,
                settlements |-> NotBuilt, roads |-> NotBuilt, classes |-> NotBuilt,
                mapData |-> NotBuilt] :
               entry \in {"generate", "generateWithDomainWarping"},
               enabled \in BOOLEAN, requested \in RequestedIterations}

\* the noise loops of generate / generateWithDomainWarping, then finalizeHeightmap
\* is entered
generateNoise ==
    /\ build.pc = "noise"
    /\ build' = [build EXCEPT !.pc = "finalize", !.steps = Append(@, "noise"),
                              !.heightmap = <<"noise">>, !.pass = 0]

\* a loop that stops one pass early
LoopGoesOnShort(i, iterations) == i + 1 < iterations

\* finalizeHeightmap's loop condition
LoopGoesOn(i, iterations) == i < iterations

\* applyFlowBasedErosion(heightmap, iteration): the input itself when erosion is
\* not enabled
applyFlowBasedErosion(heightmap, enabled) ==
    IF ~enabled THEN heightmap ELSE Append(heightmap, "erosion")

\* enhanceContrast(data)
enhanceContrast(data) == Append(data, "contrast")

\* one pass of finalizeHeightmap's loop
erosionPass ==
    /\ build.pc = "finalize"
    /\ LoopGoesOn(build.pass, build.iterations)
    /\ build' = [build EXCEPT !.steps = Append(@, "erosion"),
                              !.heightmap = applyFlowBasedErosion(@, build.enabled),
                              !.pass = @ + 1]

\* finalizeHeightmap's return: enhanceContrast(current); generateHeightmap returns
\* and SettlementGenerator.generate is called with the result
finalizeReturn ==
    /\ build.pc = "finalize"
    /\ ~LoopGoesOn(build.pass, build.iterations)
    /\ build' = [build EXCEPT !.pc = "islands", !.steps = Append(@, "contrast"),
                              !.heightmap = enhanceContrast(@)]

\* SettlementGenerator.generate: labelIslands(heightmap, ...)
buildIslands ==
    /\ build.pc = "islands"
    /\ build' = [build EXCEPT !.pc = "settlements", !.steps = Append(@, "islands"),
                              !.islands = <<[heightmap |-> build.heightmap]>>]

\* SettlementGenerator.generate: the sampling loops, over heightmap and islandData
buildSettlements ==
    /\ build.pc = "settlements"
    /\ build' = [build EXCEPT !.pc = "roads", !.steps = Append(@, "settlements"),
                              !.settlements = <<[heightmap |-> build.heightmap,
                                                 islands |-> build.islands]>>]

\* generateRoads(heightmap, settlements)
buildRoads ==
    /\ build.pc = "roads"
    /\ build' = [build EXCEPT !.pc = "classification", !.steps = Append(@, "roads"),
                              !.roads = <<[heightmap |-> build.heightmap,
                                           settlements |-> build.settlements]>>]

\* classifySettlements(settlements, roads)
buildClasses ==
    /\ build.pc = "classification"
    /\ build' = [build EXCEPT !.pc = "render", !.steps = Append(@, "classification"),
                              !.classes = <<[settlements |-> build.settlements,
                                             roads |-> build.roads]>>]

\* resetLayerState(); renderMap(heightmap, settlements, roads)
buildRender ==
    /\ build.pc = "render"
    /\ build' = [build EXCEPT !.pc = "done",
                              !.mapData = <<[heightmap |-> build.heightmap,
                                             settlements |-> build.settlements,
                                             roads |-> build.roads]>>]

----------------------------------------------------------------------------
(* HeightmapGenerator.applyFlowBasedErosion, steps 1 and 2 of a pass: the D8   *)
(* flow directions, the order by height and the accumulation of the flow.     *)
(* Steps 3 and 4 read flow and slopes and write a new heightmap; they leave   *)
(* flowDirection, order and flow alone.  Heights are whole levels, a slope is *)
(* kept in thousandths of a level per cell: drop * 1000 along a row or a      *)
(* column, drop / sqrt(2) rounded down to a thousandth along a diagonal.      *)

\* the map of a pass
EroMap == [width |-> 3, height |-> 2]

EroSize == EroMap.width * EroMap.height

\* erosion.rainfall: the default 1.0, or twice as much
EroRainfalls == {1, 2}

\* the heightmap handed to the pass
EroInit ==
    \E heightmap \in [0..(EroSize - 1) -> 0..MaxLevel], rainfall \in EroRainfalls :
        ero = [pc |-> "pass", heightmap |-> heightmap, rainfall |-> rainfall]

\* the offsets (offsetX, offsetY) in the order of the two for loops
D8Offsets ==
    << <<0 - 1, 0 - 1>>, <<0, 0 - 1>>, <<1, 0 - 1>>, <<0 - 1, 0>>, <<1, 0>>,
       <<0 - 1, 1>>, <<0, 1>>, <<1, 1>> >>

\* the loops over offsetY and offsetX around cell (x, y), from offset k on
RECURSIVE steepest(_, _, _, _, _)
steepest(heightmap, x, y, k, best) ==
    IF k > Len(D8Offsets) THEN best
    ELSE LET offsetX == D8Offsets[k][1]
             offsetY == D8Offsets[k][2]
             nx == x + offsetX
             ny == y + offsetY
             neighborIndex == ny * EroMap.width + nx
             drop == heightmap[y * EroMap.width + x] - heightmap[neighborIndex]
             slope == IF offsetX = 0 \/ offsetY = 0 THEN drop * 1000
                      ELSE Isqrt(drop * drop * 500000)
         IN  IF nx < 0 \/ nx >= EroMap.width \/ ny < 0 \/ ny >= EroMap.height
             THEN steepest(heightmap, x, y, k + 1, best)
             ELSE IF drop <= 0 THEN steepest(heightmap, x, y, k + 1, best)
             ELSE IF slope > best.bestSlope
             THEN steepest(heightmap, x, y, k + 1,
                           [bestSlope |-> slope, bestIndex |-> neighborIndex])
             ELSE steepest(heightmap, x, y, k + 1, best)

\* step 1: flowDirection[idx] is the steepest lower neighbour, -1 without one
flowDirectionOf(heightmap) ==
    [idx \in 0..(EroSize - 1) |->
        steepest(heightmap, idx % EroMap.width, idx \div EroMap.width, 1,
                 [bestSlope |-> 0, bestIndex |-> 0 - 1]).bestIndex]

\* an order that puts the lowest cells first
RECURSIVE sortedAscending(_, _)
sortedAscending(cells, heightmap) ==
    IF cells = {} THEN {<<>>}
    ELSE UNION {{<<c>> \o q : q \in sortedAscending(cells \ {c}, heightmap)} :
                c \in {d \in cells : \A e \in cells : heightmap[d] <= heightmap[e]}}

\* order.sort((a, b) => heightmap[b] - heightmap[a]): the orders of the cells from
\* the highest to the lowest, cells of one height in any order
RECURSIVE sortedByHeight(_, _)
sortedByHeight(cells, heightmap) ==
    IF cells = {} THEN {<<>>}
    ELSE UNION {{<<c>> \o q : q \in sortedByHeight(cells \ {c}, heightmap)} :
                c \in {d \in cells : \A e \in cells : heightmap[d] >= heightmap[e]}}

notEroVars == <<timeVars, calVars, pathVars, clsVars, genVars, sav, isl, place, build,
                stop, mv, ser>>

\* steps 1 and 2 up to the accumulation loop: flowDirection, order, flow.fill
erodeBegin ==
    /\ ero.pc = "pass"
    /\ \E order \in sortedByHeight(0..(EroSize - 1), ero.heightmap) :
          ero' = [pc |-> "flow", heightmap |-> ero.heightmap, rainfall |-> ero.rainfall,
                  flowDirection |-> flowDirectionOf(ero.heightmap),
                  order |-> order,
                  flow |-> [idx \in 0..(EroSize - 1) |-> Fround(ero.rainfall)],
                  i |-> 0]
    /\ UNCHANGED notEroVars

\* one turn of the accumulation loop: the flow of order[i] goes to its target
accumulateFlow ==
    /\ ero.pc = "flow"
    /\ ero.i < EroSize
    /\ LET idx == ero.order[ero.i + 1]
           target == ero.flowDirection[idx]
       IN  ero' = [ero EXCEPT
                     !.flow = IF target >= 0
                              THEN [@ EXCEPT ![target] = Fround(@ + ero.flow[idx])]
                              ELSE @,
                     !.i = @ + 1]
    /\ UNCHANGED notEroVars

\* the loop is over: flow is what steps 3 and 4 read
flowReady ==
    /\ ero.pc = "flow"
    /\ ero.i >= EroSize
    /\ ero' = [ero EXCEPT !.pc = "done"]
    /\ UNCHANGED notEroVars

----------------------------------------------------------------------------
(* The services a specification leaves alone *)

Idle == [pc |-> "idle"]

SavIdle   == sav = Idle
IslIdle   == isl = Idle
PlaceIdle == place = Idle
BuildIdle == build = Idle

StopIdle == stop = NoStop
MvIdle   == mv = Idle
EroIdle  == ero = Idle
SerIdle  == ser = Idle

OthersIdle == SavIdle /\ IslIdle /\ PlaceIdle /\ BuildIdle /\ StopIdle /\ MvIdle /\ EroIdle /\ SerIdle

----------------------------------------------------------------------------
(* Specifications *)

InitTime == TimeInit /\ CalIdle /\ PathIdle /\ ClsIdle /\ GenIdle /\ OthersIdle

NextTime ==
    \/ (\E t \in Stamps : Tick(t)) /\ UNCHANGED notTimeVars
    \/ (\E t \in Stamps : TickIgnored(t)) /\ UNCHANGED notTimeVars
    \/ (\E s \in TimeSpeeds : setTimeSpeed(s)) /\ UNCHANGED notTimeVars
    \/ togglePause /\ UNCHANGED notTimeVars
    \/ (\E d \in 0..MaxLoadDays, s \in TimeSpeeds : loadState(d, s)) /\ UNCHANGED notTimeVars
    \/ (\E d \in 0..MaxLoadDays : reset(d)) /\ UNCHANGED notTimeVars
    \/ WorldStart /\ UNCHANGED notTimeVars
    \/ WorldPause /\ UNCHANGED notTimeVars

SpecTime == InitTime /\ [][NextTime]_vars

notLoopVars == <<calVars, pathVars, clsVars, genVars, sav, isl, place, build, mv, ero, ser>>

NextLoop ==
    \/ startWorld /\ UNCHANGED notLoopVars
    \/ pauseWorld /\ UNCHANGED notLoopVars
    \/ (\E t \in Stamps : loopTick(t)) /\ UNCHANGED notLoopVars
    \/ (\E t \in Stamps : loopIgnored(t)) /\ UNCHANGED notLoopVars
    \/ (\E s \in TimeSpeeds : setTimeSpeed(s)) /\ UNCHANGED <<notLoopVars, stop>>

SpecLoop == InitTime /\ [][NextLoop]_vars

InitCalendar == TimeIdle /\ CalInit /\ PathIdle /\ ClsIdle /\ GenIdle /\ OthersIdle

NextCalendar == Calculate /\ UNCHANGED notCalVars

SpecCalendar == InitCalendar /\ [][NextCalendar]_vars

InitPathfinder == TimeIdle /\ CalIdle /\ PathInit /\ ClsIdle /\ GenIdle /\ OthersIdle

NextPathfinder ==
    \/ (\E start \in (0 - 1)..PathNodes, end \in (0 - 1)..PathNodes :
            shortestPathBegin(start, end)) /\ UNCHANGED notPathVars
    \/ shortestPathStep /\ UNCHANGED notPathVars
    \/ shortestPathFinish /\ UNCHANGED notPathVars

SpecPathfinder == InitPathfinder /\ [][NextPathfinder]_vars

InitTravel == TimeIdle /\ CalIdle /\ TravelInit /\ ClsIdle /\ GenIdle /\ OthersIdle

NextTravel ==
    \/ (\E start \in 0..(PathNodes - 1), end \in 0..(PathNodes - 1) :
            shortestPathBegin(start, end)) /\ UNCHANGED notPathVars
    \/ shortestPathStep /\ UNCHANGED notPathVars
    \/ shortestPathFinish /\ UNCHANGED notPathVars
    \/ travelPath /\ UNCHANGED notPathVars
    \/ (\E nodePath \in NodePaths(MaxHops + 1) : pointPath(nodePath))
           /\ UNCHANGED notPathVars

SpecTravel == InitTravel /\ [][NextTravel]_vars

InitRoute == TimeIdle /\ CalIdle /\ RouteInit /\ ClsIdle /\ GenIdle /\ OthersIdle

SpecRoute == InitRoute /\ [][NextTravel]_vars

InitClassifier == TimeIdle /\ CalIdle /\ PathIdle /\ ClsInit /\ GenIdle /\ OthersIdle

NextClassifier ==
    \/ classifyBegin /\ UNCHANGED notClsVars
    \/ classifySelect /\ UNCHANGED notClsVars
    \/ classifyTowns /\ UNCHANGED notClsVars

SpecClassifier == InitClassifier /\ [][NextClassifier]_vars

InitRoads == TimeIdle /\ CalIdle /\ PathIdle /\ ClsIdle /\ GenInit /\ OthersIdle

NextRoads ==
    \/ generateBegin /\ UNCHANGED notGenVars
    \/ addMSTRoad /\ UNCHANGED notGenVars
    \/ tryCandidate /\ UNCHANGED notGenVars
    \/ generateReturn /\ UNCHANGED notGenVars

SpecRoads == InitRoads /\ [][NextRoads]_vars

InitCells == TimeIdle /\ CalIdle /\ PathIdle /\ ClsIdle /\ CellInit /\ OthersIdle

SpecCells == InitCells /\ [][NextRoads]_vars

InitSave == SavInit /\ CalIdle /\ PathIdle /\ ClsIdle /\ GenIdle
            /\ IslIdle /\ PlaceIdle /\ BuildIdle /\ StopIdle /\ MvIdle /\ EroIdle /\ SerIdle

NextSave ==
    \/ SavAdvance /\ UNCHANGED notSavTimeVars
    \/ (\E s \in TimeSpeeds : SavSetSpeed(s)) /\ UNCHANGED notSavTimeVars
    \/ (\E target \in 0..(SavNodes - 1) : moveToSettlement(target))
           /\ UNCHANGED notSavTimeVars
    \/ finishMovement /\ UNCHANGED notSavTimeVars
    \/ saveWorld /\ UNCHANGED notSavTimeVars
    \/ loadLatestSave /\ UNCHANGED notSavTimeVars

SpecSave == InitSave /\ [][NextSave]_vars

\* the same worlds, with a record store that other writers reach
NextForeign ==
    \/ SavAdvance /\ UNCHANGED notSavTimeVars
    \/ saveWorld /\ UNCHANGED notSavTimeVars
    \/ ForeignRecord /\ UNCHANGED notSavTimeVars
    \/ loadLatestSave /\ UNCHANGED notSavTimeVars

SpecForeign == InitSave /\ [][NextForeign]_vars

InitIslands == TimeIdle /\ CalIdle /\ PathIdle /\ ClsIdle /\ GenIdle
               /\ SavIdle /\ IslInit /\ PlaceIdle /\ BuildIdle /\ StopIdle /\ MvIdle /\ EroIdle /\ SerIdle

NextIslands ==
    \/ labelSkip /\ UNCHANGED notIslVars
    \/ labelStart /\ UNCHANGED notIslVars
    \/ labelFill /\ UNCHANGED notIslVars
    \/ labelClose /\ UNCHANGED notIslVars
    \/ labelReturn /\ UNCHANGED notIslVars

SpecIslands == InitIslands /\ [][NextIslands]_vars

InitPlacement == TimeIdle /\ CalIdle /\ PathIdle /\ ClsIdle /\ GenIdle
                 /\ SavIdle /\ IslIdle /\ PlaceInit /\ BuildIdle /\ StopIdle /\ MvIdle /\ EroIdle /\ SerIdle

NextPlacement ==
    \/ placeSkip /\ UNCHANGED notPlaceVars
    \/ placeMiss /\ UNCHANGED notPlaceVars
    \/ placeReject /\ UNCHANGED notPlaceVars
    \/ placeSettle /\ UNCHANGED notPlaceVars
    \/ placeReturn /\ UNCHANGED notPlaceVars

SpecPlacement == InitPlacement /\ [][NextPlacement]_vars

InitBuild == TimeIdle /\ CalIdle /\ PathIdle /\ ClsIdle /\ GenIdle
             /\ SavIdle /\ IslIdle /\ PlaceIdle /\ BuildInit /\ StopIdle /\ MvIdle /\ EroIdle /\ SerIdle

NextBuild ==
    \/ generateNoise /\ UNCHANGED notBuildVars
    \/ erosionPass /\ UNCHANGED notBuildVars
    \/ finalizeReturn /\ UNCHANGED notBuildVars
    \/ buildIslands /\ UNCHANGED notBuildVars
    \/ buildSettlements /\ UNCHANGED notBuildVars
    \/ buildRoads /\ UNCHANGED notBuildVars
    \/ buildClasses /\ UNCHANGED notBuildVars
    \/ buildRender /\ UNCHANGED notBuildVars

SpecBuild == InitBuild /\ [][NextBuild]_vars

InitMove == TimeInit /\ CalIdle /\ MoveInit /\ ClsIdle /\ GenIdle
            /\ SavIdle /\ IslIdle /\ PlaceIdle /\ BuildIdle /\ StopIdle /\ EroIdle /\ SerIdle

NextMove ==
    \/ \E targetIndex \in 0..MoveNodes : travelTo(targetIndex)
    \/ \E deltaMS \in FrameMs : frame(deltaMS)
    \/ (\E s \in TimeSpeeds : setTimeSpeed(s)) /\ UNCHANGED notTimeVars
    \/ WorldStart /\ UNCHANGED notTimeVars
    \/ WorldPause /\ UNCHANGED notTimeVars

SpecMove == InitMove /\ [][NextMove]_vars

InitErosion == TimeIdle /\ CalIdle /\ PathIdle /\ ClsIdle /\ GenIdle
               /\ SavIdle /\ IslIdle /\ PlaceIdle /\ BuildIdle /\ StopIdle /\ MvIdle
               /\ EroInit /\ SerIdle

NextErosion == erodeBegin \/ accumulateFlow \/ flowReady

SpecErosion == InitErosion /\ [][NextErosion]_vars

InitSerialize == TimeIdle /\ CalIdle /\ PathIdle /\ ClsIdle /\ GenIdle
                 /\ SavIdle /\ IslIdle /\ PlaceIdle /\ BuildIdle /\ StopIdle /\ MvIdle
                 /\ EroIdle /\ SerInit

NextSerialize == serializeRoads \/ serializeNext

SpecSerialize == InitSerialize /\ [][NextSerialize]_vars

----------------------------------------------------------------------------
(* Properties of the world time service *)

\* C6: starting from totalDays = 0 with the speed fixed at 1, after ticks with
\* non-decreasing timestamps t0..tn, totalDays = floor((tn - t0) / 1000).
C6_OneDayPerSecond ==
    (/\ obs.startDays = 0
     /\ obs.nTicks >= 1
     /\ obs.tickSpeed = NORMAL
     /\ obs.mono)
    => totalDays = (obs.lastTick - obs.firstTick) \div 1000

\* C7: on a fresh running world, setTimeSpeed(2); tick(t0); tick(t0 + 1000)
\* increases totalDays by exactly 2, for every t0 >= 0.
C7_TwoDaysAtDoubleSpeed ==
    (/\ obs.nTicks = 2
     /\ obs.tickSpeed = FAST
     /\ obs.lastTick = obs.firstTick + 1000)
    => totalDays = obs.startDays + 2

\* the speed in force since the latest tick processed at speed 0 (the fastest
\* one when it was changed in between)
ResumeRate == IF obs.resumeSpeed = MixedSpeed THEN VERY_FAST ELSE obs.resumeSpeed

\* C8: a tick processed at speed 0 leaves totalDays unchanged, and once a
\* non-zero speed is set and ticking continues, the days gained since the
\* latest speed-0 tick are those of the time elapsed after that tick only:
\* nothing of the time before it is converted.
C8_PausedTimeNotCounted ==
    /\ [][(timeSpeed = PAUSED /\ \E t \in Stamps : Tick(t))
            => totalDays' = totalDays]_vars
    /\ []((/\ obs.pauseStamp >= 0
           /\ obs.resumeSpeed # NoSpeed
           /\ obs.resumeMono)
          => (totalDays - obs.pauseDays) * 1000
                <= ResumeRate * (obs.lastTick - obs.pauseStamp))

\* C8 witness: ticks at speed 0 went by, the speed was set to 1, and a later
\* tick advanced the day count.
C8_Witness ==
    /\ obs.firstTick >= 0
    /\ obs.firstTick < obs.pauseStamp
    /\ obs.resumeSpeed = NORMAL
    /\ obs.resumeMono
    /\ totalDays > obs.pauseDays

\* C9: tick (any timestamps), setTimeSpeed and togglePause never decrease
\* totalDays; it goes down only through reset or loadState.
C9_TotalDaysMonotone ==
    /\ [][(\/ \E t \in Stamps : Tick(t)
           \/ \E t \in Stamps : TickIgnored(t)
           \/ \E s \in TimeSpeeds : setTimeSpeed(s)
           \/ togglePause)
            => totalDays' >= totalDays]_vars
    /\ [][totalDays' < totalDays
            => (\/ \E d \in 0..MaxLoadDays, s \in TimeSpeeds : loadState(d, s)
                \/ \E d \in 0..MaxLoadDays : reset(d))]_vars

\* C9 witness: a tick with an earlier timestamp than its predecessor was
\* processed at a non-zero speed (the accumulator went negative) after days
\* had been gained.
C9_Witness ==
    /\ ~obs.mono
    /\ accumulatedTime < 0
    /\ totalDays > obs.startDays

\* C19: time that goes by while the world is not running is never turned into
\* game days: after World.pause(), a later World.start() and further ticks, the
\* speed unchanged and not 0, the days gained since the restart are those of the
\* time since the first tick after it (and of what the accumulator held at the
\* restart), not those of the stop.
C19_StoppedTimeNotCounted ==
    (/\ stop.resumed
     /\ stop.tick >= 0
     /\ stop.speed \in TimeSpeeds \ {PAUSED})
    => (totalDays - stop.days) * 1000
          <= stop.speed * (stop.acc + stop.last - stop.tick)

\* C30: after every tick processed at a speed s other than 0, the timestamps so far
\* non-decreasing, 0 <= accumulatedTime < 1000 / s, also when the speed was changed
\* since the tick before; after every tick processed at speed 0, after loadState
\* and after reset, accumulatedTime = 0.
C30_AccumulatorBelowOneDay ==
    /\ [][(obs'.nTicks = obs.nTicks + 1 /\ Tick(lastUpdateTime'))
            => IF timeSpeed = PAUSED THEN accumulatedTime' = 0
               ELSE obs'.mono => (/\ 0 <= accumulatedTime'
                                  /\ accumulatedTime' * timeSpeed < 1000)]_vars
    /\ [][(\/ \E d \in 0..MaxLoadDays, s \in TimeSpeeds : loadState(d, s)
           \/ \E d \in 0..MaxLoadDays : reset(d))
            => accumulatedTime' = 0]_vars

\* C30 witness: ticks in order were processed at different speeds, the latest one
\* advanced the days by more than one and left part of a day in the accumulator.
C30_Witness ==
    /\ obs.mono
    /\ obs.tickSpeed = MixedSpeed
    /\ obs.lastTick = lastUpdateTime
    /\ timeSpeed = FAST
    /\ accumulatedTime > 0
    /\ totalDays >= obs.startDays + 2

----------------------------------------------------------------------------
(* Properties of calculateGameTime *)

\* C10: calculateGameTime returns the date of the reference calendar: years
\* start at 1 and have 365 days (366 when year mod 4 = 0); day-of-year d in
\* 0..363 is month d/28+1, day d%28+1, weekday d%7+1, normal; d = 364 is the
\* year-day of a plain year and the leap-day of a leap year; d = 365 is the
\* year-day of a leap year; special days have month 0 and weekday 0.
C10_ReferenceCalendar ==
    calResult # NoTime =>
        LET r == calResult
            y == r.year
            leap == y % 4 = 0
            daysBefore == 365 * (y - 1) + ((y - 1) \div 4)
            d == calInput - daysBefore
        IN  /\ y >= 1
            /\ d >= 0
            /\ d < (IF leap THEN 366 ELSE 365)
            /\ r.totalDays = calInput
            /\ d <= 363 => /\ r.month = (d \div 28) + 1
                           /\ r.day = (d % 28) + 1
                           /\ r.weekday = (d % 7) + 1
                           /\ r.specialDay = "normal"
            /\ d = 364 => r.specialDay = (IF leap THEN "leap_day" ELSE "year_day")
            /\ d = 365 => r.specialDay = "year_day"
            /\ d >= 364 => r.month = 0 /\ r.weekday = 0

\* C10 witness: a leap-day was returned (day 364 of year 4).
C10_Witness ==
    /\ calResult # NoTime
    /\ calResult.specialDay = "leap_day"
    /\ calResult.year = 4

----------------------------------------------------------------------------
(* Properties of RoadPathfinder.shortestPath *)

SetMin(S) == CHOOSE m \in S : \A x \in S : m <= x

\* the length of the shortest road of pfRoads joining settlements m and n of the
\* graph (Infinity: no such road)
PairLength(m, n) ==
    LET joining == {i \in 1..Len(pfRoads) :
                      {pfRoads[i].aIndex, pfRoads[i].bIndex} = {m, n}}
    IN  IF m \in DOMAIN pfGraph.adjacency /\ n \in DOMAIN pfGraph.adjacency
           /\ joining # {}
        THEN SetMin({pfRoads[i].length : i \in joining})
        ELSE Infinity

\* every sequence of distinct settlements from cur to e whose consecutive pairs
\* are joined by a road
RECURSIVE PathsFrom(_, _, _)
PathsFrom(cur, e, seen) ==
    IF cur = e THEN {<<e>>}
    ELSE UNION {{<<cur>> \o p : p \in PathsFrom(n, e, seen \cup {n})} :
                n \in {x \in (DOMAIN pfGraph.adjacency) \ seen :
                         PairLength(cur, x) < Infinity}}

RECURSIVE SumAlong(_, _)
SumAlong(nodes, i) ==
    IF i >= Len(nodes) THEN 0
    ELSE PairLength(nodes[i], nodes[i + 1]) + SumAlong(nodes, i + 1)

\* the minimum total length over all s-to-e paths (Infinity: not connected)
MinPathLength(s, e) ==
    LET paths == PathsFrom(s, e, {s})
    IN  IF paths = {} THEN Infinity ELSE SetMin({SumAlong(p, 1) : p \in paths})

\* C2: for a connected in-range pair the returned node sequence runs from start
\* to end along roads of the graph, and the reported distance is the sum of the
\* road lengths along it and the minimum over all start-to-end paths.
C2_ShortestPathIsShortest ==
    (/\ pf.pc = "done"
     /\ pf.start \in DOMAIN pfGraph.adjacency
     /\ pf.end \in DOMAIN pfGraph.adjacency)
    => LET nodes == pf.result.nodes
           shortest == MinPathLength(pf.start, pf.end)
       IN  shortest < Infinity
           => /\ pf.result # NoResult
              /\ Len(nodes) >= 1
              /\ nodes[1] = pf.start
              /\ nodes[Len(nodes)] = pf.end
              /\ \A i \in 1..(Len(nodes) - 1) :
                    PairLength(nodes[i], nodes[i + 1]) < Infinity
              /\ pf.result.distance = SumAlong(nodes, 1)
              /\ pf.result.distance = shortest

\* C2 witness: a route over two roads was returned although a direct, longer
\* road joins start and end.
C2_Witness ==
    /\ pf.pc = "done"
    /\ pf.result # NoResult
    /\ Len(pf.result.nodes) = 3
    /\ PairLength(pf.start, pf.end) < Infinity
    /\ PairLength(pf.start, pf.end) > pf.result.distance


\* C17: shortestPath returns null when start or end is outside [0, N), N = 0
\* included, and when no chain of roads joins start to end; it returns a result in
\* every other case.  No statement of it throws.
C17_NullExactlyWhenUnreachable ==
    pf.pc = "done" =>
        (pf.result = NoResult
            <=> \/ pf.start \notin DOMAIN pfGraph.adjacency
                \/ pf.end \notin DOMAIN pfGraph.adjacency
                \/ PathsFrom(pf.start, pf.end, {pf.start}) = {})

\* null for two settlements of a graph that no chain of roads joins, though roads
\* leave the start
C17_Witness ==
    /\ pf.pc = "done"
    /\ pf.result = NoResult
    /\ pf.start \in DOMAIN pfGraph.adjacency
    /\ pf.end \in DOMAIN pfGraph.adjacency
    /\ Len(pfRoads) >= 2
    /\ \E n \in DOMAIN pfGraph.adjacency : PairLength(pf.start, n) < Infinity

----------------------------------------------------------------------------
(* Properties of the point paths *)

\* the road of pfRoads that joins a and b; the travel maps have at most one
TravelRoadOf(a, b) ==
    pfRoads[CHOOSE i \in 1..Len(pfRoads) : {pfRoads[i].aIndex, pfRoads[i].bIndex} = {a, b}]

HasRoad(a, b) ==
    \E i \in 1..Len(pfRoads) : {pfRoads[i].aIndex, pfRoads[i].bIndex} = {a, b}

\* the polyline of hop i of the node path, in the direction of travel
Oriented(nodePath, i) ==
    LET road == TravelRoadOf(nodePath[i], nodePath[i + 1])
    IN  IF road.aIndex = nodePath[i] THEN road.points ELSE Reverse(road.points)

\* the number of points of the path before hop i, the join not counted
RECURSIVE PointsBefore(_, _)
PointsBefore(nodePath, i) ==
    IF i = 1 THEN 0
    ELSE PointsBefore(nodePath, i - 1) + Len(Oriented(nodePath, i - 1)) - 1

\* C16: for a node sequence of k + 1 >= 2 nodes whose consecutive pairs have roads,
\* buildPointPath returns the polylines of the roads, each in the direction of
\* travel, laid end to end with every join point once: the path starts at the first
\* node's point, ends at the last node's, and has (sum of the k polyline lengths)
\* - (k - 1) points.
C16_PointPathIsConcatenation ==
    (/\ pf.pc = "built"
     /\ Len(pf.nodePath) >= 2
     /\ \A i \in 1..(Len(pf.nodePath) - 1) : HasRoad(pf.nodePath[i], pf.nodePath[i + 1]))
    => LET k == Len(pf.nodePath) - 1
           first == TravelSite(pf.nodePath[1])
           last == TravelSite(pf.nodePath[k + 1])
       IN  /\ pf.path # NoPath
           /\ Len(pf.path) = PointsBefore(pf.nodePath, k + 1) + 1
           /\ pf.path[1] = first
           /\ pf.path[Len(pf.path)] = last
           /\ \A i \in 1..k : \A t \in 1..Len(Oriented(pf.nodePath, i)) :
                 pf.path[PointsBefore(pf.nodePath, i) + t] = Oriented(pf.nodePath, i)[t]

\* a path of two hops or more over a bent road travelled against its stored direction
C16_Witness ==
    /\ pf.pc = "built"
    /\ Len(pf.nodePath) >= 3
    /\ pf.path # NoPath
    /\ Len(pf.path) >= 4
    /\ \E i \in 1..(Len(pf.nodePath) - 1) :
          /\ HasRoad(pf.nodePath[i], pf.nodePath[i + 1])
          /\ TravelRoadOf(pf.nodePath[i], pf.nodePath[i + 1]).aIndex = pf.nodePath[i + 1]
          /\ Len(TravelRoadOf(pf.nodePath[i], pf.nodePath[i + 1]).points) = 3

\* C18: the travel query from an in-range settlement s to s itself yields the nodes
\* [s], the distance 0 and a polyline of the single point of settlement s.
C18_TravelToSelfStaysPut ==
    (/\ pf.pc = "built"
     /\ pf.query
     /\ pf.start = pf.end)
    => /\ pf.nodePath = <<pf.start>>
       /\ pf.distance = 0
       /\ pf.path = <<TravelSite(pf.start)>>

\* such a query at a settlement that has roads, and is not the first
C18_Witness ==
    /\ pf.pc = "built"
    /\ pf.query
    /\ pf.start = pf.end
    /\ pf.start > 0
    /\ \E n \in DOMAIN pfGraph.adjacency : HasRoad(pf.start, n)
    /\ Len(pf.path) = 1

\* the summed lengths of the roads buildPointPath follows along the node path
RECURSIVE FollowedLength(_, _)
FollowedLength(nodePath, i) ==
    IF i >= Len(nodePath) THEN 0
    ELSE pfRoads[pfGraph.edgeToRoad[edgeKey(nodePath[i], nodePath[i + 1])] + 1].length
            + FollowedLength(nodePath, i + 1)

\* C27: for every road list buildGraph accepts and every route shortestPath
\* returns, buildPointPath returns a polyline, and the lengths of the roads it
\* follows sum to the distance of the route, also when several roads join the
\* same two settlements.
C27_PolylineFollowsCountedRoads ==
    (pf.pc = "built" /\ pf.query)
    => /\ pf.path # NoPath
       /\ FollowedLength(pf.nodePath, 1) = pf.distance

----------------------------------------------------------------------------
(* Claims about SettlementClassifier.classify *)

\* the settlements joined to v by one road of the road list
RoadNeighbours(v) ==
    {w \in DOMAIN clsSettlements : <<v, w>> \in clsRoads \/ <<w, v>> \in clsRoads}

\* the settlements at hop distance at most n from v on the road graph
RECURSIVE Ball(_, _)
Ball(v, n) ==
    IF n <= 0 THEN {v}
    ELSE LET inner == Ball(v, n - 1)
         IN  inner \cup UNION {RoadNeighbours(w) : w \in inner}

Cities == {i \in DOMAIN clsSettlements : clsSettlements[i].category = "city"}

Classified == cls.pc = "done" /\ DOMAIN clsSettlements # {}

\* C5: after classify, any two distinct cities are at hop distance at least
\* minCityHops on the road graph, or are not joined by roads at all.
C5_CitiesFarApart ==
    Classified =>
        \A a \in Cities : \A b \in Cities \ {a} :
            b \notin Ball(a, clsConfig.minCityHops - 1)

\* two cities joined by roads, exactly minCityHops >= 2 hops apart
C5_Witness ==
    /\ Classified
    /\ clsConfig.minCityHops >= 2
    /\ \E a \in Cities : \E b \in Cities \ {a} :
          /\ b \in Ball(a, clsConfig.minCityHops)
          /\ b \notin Ball(a, clsConfig.minCityHops - 1)

\* C4, as stated: after classify on N settlements the number of cities is at most
\* min(maxCities, N), and it is below minCities only when every settlement
\* that was not admitted has a cityScore below minScoreForCity.
C4_CityCountInRange ==
    Classified =>
        LET count == Cardinality(Cities)
            N == Cardinality(DOMAIN clsSettlements)
        IN  /\ count <= Min2(clsConfig.maxCities, N)
            /\ count < clsConfig.minCities =>
                  \A i \in DOMAIN clsSettlements \ Cities :
                      clsSettlements[i].cityScore * 100
                          < clsConfig.minScoreForCity * ScoreOne

\* C4, amended: the number of cities is at most
\* min(N, clamp(round(N * cityShare), minCities, maxCities)), and when it is
\* below that target every settlement that is not a city has a cityScore below
\* minScoreForCity or lies fewer than minCityHops hops from a city.
C4_CityCountUpToTarget ==
    Classified =>
        LET count == Cardinality(Cities)
            N == Cardinality(DOMAIN clsSettlements)
            share == (2 * N * clsConfig.cityShare + 1000) \div 2000
            target == Min2(N, Max2(clsConfig.minCities,
                                   Min2(clsConfig.maxCities, share)))
        IN  /\ count <= target
            /\ count < target =>
                  \A i \in DOMAIN clsSettlements \ Cities :
                      \/ clsSettlements[i].cityScore * 100
                             < clsConfig.minScoreForCity * ScoreOne
                      \/ \E c \in Cities : i \in Ball(c, clsConfig.minCityHops - 1)

\* fewer cities than minCities <= N although a settlement that is not a city
\* has a cityScore of at least minScoreForCity: it is too close to a city
C4_Witness ==
    /\ Classified
    /\ Cardinality(Cities) < clsConfig.minCities
    /\ clsConfig.minCities <= Cardinality(DOMAIN clsSettlements)
    /\ \E i \in DOMAIN clsSettlements \ Cities :
          /\ clsSettlements[i].cityScore * 100 >= clsConfig.minScoreForCity * ScoreOne
          /\ \E c \in Cities : i \in Ball(c, clsConfig.minCityHops - 1)

----------------------------------------------------------------------------
(* Claims about RoadGenerator.generate *)

Generated == gen.pc = "done"

\* the settlements joined to those of S by a path of the given roads
RECURSIVE JoinedBy(_, _)
JoinedBy(S, roads) ==
    LET more == S \cup {roads[k].bIndex : k \in {j \in DOMAIN roads : roads[j].aIndex \in S}}
                  \cup {roads[k].aIndex : k \in {j \in DOMAIN roads : roads[j].bIndex \in S}}
    IN  IF more = S THEN S ELSE JoinedBy(more, roads)

\* C1: with forceMST the roads returned by generate join every pair of
\* settlements, for every settlement list, kNearest and maxDistance.
C1_RoadsConnectAll ==
    (Generated /\ genOptions.forceMST) =>
        \A i \in DOMAIN genSettlements :
            JoinedBy({i}, gen.roads) = DOMAIN genSettlements

\* the length of the shortest path of the given roads from s to every settlement
RECURSIVE RoadDistances(_, _, _)
RoadDistances(dist, roads, rounds) ==
    IF rounds = 0 THEN dist
    ELSE RoadDistances(
             Tabulated([v \in DOMAIN dist |->
                 SetMin({dist[v]}
                        \cup {dist[roads[k].aIndex] + roads[k].length :
                                 k \in {j \in DOMAIN roads : roads[j].bIndex = v}}
                        \cup {dist[roads[k].bIndex] + roads[k].length :
                                 k \in {j \in DOMAIN roads : roads[j].aIndex = v}})]),
             roads, rounds - 1)

RoadDistance(s, e, roads) ==
    Min2(Infinity,
         RoadDistances(Tabulated([v \in DOMAIN genSettlements |->
                                     IF v = s THEN 0 ELSE Infinity]),
                       roads, Cardinality(DOMAIN genSettlements) - 1)[e])

\* the straight-line length between the two settlements of a road
StraightLength(road) ==
    Hypot(genSettlements[road.bIndex].x - genSettlements[road.aIndex].x,
          genSettlements[road.bIndex].y - genSettlements[road.aIndex].y)

PathFactor == Max2(100, genOptions.pathFactor)

\* C3, as stated: for every candidate admitted in the redundancy pass, the shortest
\* road path between its endpoints in the final road graph is at most its
\* straight-line length times pathFactor.
C3_ShortestWithinPathFactor ==
    Generated =>
        \A k \in DOMAIN gen.admitted :
            LET road == gen.roads[gen.admitted[k]]
            IN  RoadDistance(road.aIndex, road.bIndex, gen.roads) * 100
                    <= StraightLength(road) * PathFactor

\* C3, amended: for every candidate admitted in the redundancy pass, the roads
\* laid before it held no path between its endpoints of length at most its
\* straight-line length times pathFactor; in the final road graph the shortest
\* path between its endpoints is at most the length of its own polyline, and at
\* most straight-line length times pathFactor when the polyline is the straight
\* segment, which it always is without a heightmap.
C3_ShortestWithinOwnLength ==
    Generated =>
        \A k \in DOMAIN gen.admitted :
            LET at == gen.admitted[k]
                road == gen.roads[at]
                final == RoadDistance(road.aIndex, road.bIndex, gen.roads)
                before == RoadDistance(road.aIndex, road.bIndex,
                                       SubSeq(gen.roads, 1, at - 1))
            IN  /\ before * 100 > StraightLength(road) * PathFactor
                /\ final <= road.length
                /\ Len(road.points) = 2 =>
                      final * 100 <= StraightLength(road) * PathFactor
                /\ genOptions.heightmap = NoHeightmap => Len(road.points) = 2

\* with forceMST and the default pathFactor, a candidate admitted in the
\* redundancy pass whose polyline bends and is the shortest path between its
\* endpoints, longer than straight-line length times pathFactor
C3_Witness ==
    /\ Generated
    /\ genOptions.forceMST
    /\ genOptions.pathFactor = GenDefaults.pathFactor
    /\ \E k \in DOMAIN gen.admitted :
          LET road == gen.roads[gen.admitted[k]]
              final == RoadDistance(road.aIndex, road.bIndex, gen.roads)
          IN  /\ Len(road.points) > 2
              /\ final = road.length
              /\ final * 100 > StraightLength(road) * PathFactor

\* C15: in the road list of RoadGenerator.generate each road joins two different
\* settlements and no two roads join the same unordered pair, also when the pair is
\* a candidate from both of its ends and an edge of the spanning tree.
C15_RoadsJoinDistinctPairs ==
    /\ \A i \in 1..Len(gen.roads) : gen.roads[i].aIndex # gen.roads[i].bIndex
    /\ \A i \in 1..Len(gen.roads), j \in 1..Len(gen.roads) :
          i # j => {gen.roads[i].aIndex, gen.roads[i].bIndex}
                       # {gen.roads[j].aIndex, gen.roads[j].bIndex}

\* generate returned several roads, one of them for a pair that was a candidate from
\* both ends and an edge of the spanning tree
C15_Witness ==
    /\ gen.pc = "done"
    /\ Len(gen.roads) >= 3
    /\ \E i \in 1..Len(gen.sortedCandidates), j \in 1..Len(gen.sortedCandidates),
          m \in 1..Len(gen.mstEdges) :
          LET c == gen.sortedCandidates[i]
              d == gen.sortedCandidates[j]
              e == gen.mstEdges[m]
          IN  /\ c.a = d.b /\ c.b = d.a
              /\ {e.a, e.b} = {c.a, c.b}
              /\ \E r \in 1..Len(gen.roads) :
                    {gen.roads[r].aIndex, gen.roads[r].bIndex} = {c.a, c.b}

\* the candidate edges of the call, as roads without a polyline
CandidateRoads ==
    [k \in DOMAIN gen.sortedCandidates |->
        [aIndex |-> gen.sortedCandidates[k].a, bIndex |-> gen.sortedCandidates[k].b]]

\* the connected components of the candidate-edge graph
CandidateComponents == {JoinedBy({i}, CandidateRoads) : i \in DOMAIN genSettlements}

CellOf(i) == toCell(genSettlements[i].x, genSettlements[i].y, GenConfig.pathConfig)

\* C23: every road of generate has a polyline of at least two points, the first
\* one the coordinates of settlement aIndex and the last one those of settlement
\* bIndex: when A* found a path, when there is none (the straight fallback) and
\* when the two settlements stand in the same grid cell.
C23_PolylineEndsAtSettlements ==
    \A k \in 1..Len(gen.roads) :
        LET road == gen.roads[k]
            a == genSettlements[road.aIndex]
            b == genSettlements[road.bIndex]
        IN  /\ Len(road.points) >= 2
            /\ road.points[1] = [x |-> a.x, y |-> a.y]
            /\ road.points[Len(road.points)] = [x |-> b.x, y |-> b.y]

\* generate returned a road between two settlements of one grid cell, and a road
\* of several cells that leaves a settlement standing off the centre of its cell
C23_Witness ==
    /\ Generated
    /\ GenConfig.pathConfig # NoPath
    /\ \E k \in 1..Len(gen.roads) :
          /\ CellOf(gen.roads[k].aIndex) = CellOf(gen.roads[k].bIndex)
          /\ Len(gen.roads[k].points) = 2
    /\ \E k \in 1..Len(gen.roads) :
          /\ Len(gen.roads[k].points) > 2
          /\ genSettlements[gen.roads[k].aIndex] \notin GenSites

\* C28: the A* grid has the step that was configured: with gridStep = 1, as in the
\* world build, the step is one cell, every heightmap cell is a grid cell and the
\* height of a grid cell is the height of that heightmap cell.
C28_GridStepAsConfigured ==
    (gen.pc # "idle" /\ GenConfig.pathConfig # NoPath) =>
        LET ctx == GenConfig.pathConfig
        IN  /\ ctx.step = genOptions.gridStep
            /\ genOptions.gridStep = 1 =>
                  /\ ctx.cols = ctx.width
                  /\ ctx.rows = ctx.height
                  /\ \A cx \in 0..(ctx.cols - 1), cy \in 0..(ctx.rows - 1) :
                        sampleHeight(cx, cy, ctx) = ctx.heightmap[cy * ctx.width + cx]

----------------------------------------------------------------------------
(* Properties of saving and loading *)

\* C11: a world loaded from the record that saveWorld wrote has the settlement
\* records, the road list (endpoints, indices, length, polyline points in order and
\* number), totalDays, timeSpeed, the player position and currentSettlementIndex
\* that the world had when it was saved.
C11_LoadRestoresSavedWorld ==
    (sav.outcome = "loaded" /\ ~sav.foreign) => sav.faithful

\* a load that brought back a bent road, a player on the way and a later day, in
\* place of a world that had moved on since the save
C11_Witness ==
    /\ sav.outcome = "loaded"
    /\ ~sav.foreign
    /\ sav.changed
    /\ sav.faithful
    /\ Len(sav.worldRef[1].roads) >= 1
    /\ \E i \in 1..Len(sav.worldRef[1].roads) : Len(sav.worldRef[1].roads[i].points) = 3
    /\ sav.saved[1].totalDays > 0
    /\ sav.saved[1].timeSpeed # PAUSED
    /\ sav.saved[1].player.y = 3

\* C12: a record of an unknown version, or whose road metadata runs past the stored
\* point pairs, or whose buffer is truncated, is never loaded: loadLatestSave ends in
\* a failure.
C12_ForeignRecordRejected ==
    sav.foreign => sav.outcome # "loaded"

\* the sum of the pointsCount of the first n entries of the metadata
RECURSIVE CountedPoints(_, _)
CountedPoints(metadata, n) ==
    IF n = 0 THEN 0 ELSE metadata[n].pointsCount + CountedPoints(metadata, n - 1)

\* C26: for every road list, roads without points or with an empty or a one-point
\* points array included, serialize lays the data out consistently: the
\* pointsOffset of each entry is the sum of the pointsCount of the entries before
\* it, and pointsData holds as many xy pairs as the sum of all pointsCount, so that
\* every range [pointsOffset, pointsOffset + pointsCount) lies inside pointsData.
C26_SerializedLayoutConsistent ==
    ser.pc = "serialized" =>
        LET metadata == ser.data.metadata
            pairs == Len(ser.data.pointsData.floats) \div 2
        IN  /\ Len(metadata) = Len(ser.roads)
            /\ \A k \in 1..Len(metadata) :
                  /\ metadata[k].pointsOffset = CountedPoints(metadata, k - 1)
                  /\ metadata[k].pointsOffset + metadata[k].pointsCount <= pairs
            /\ pairs = CountedPoints(metadata, Len(metadata))

----------------------------------------------------------------------------
(* Properties of the island labelling *)

IslCells == 0..(isl.width * isl.height - 1)

\* the cells at one step up, down, left or right of cell a
Beside(a) ==
    {b \in IslCells :
        \/ b \div isl.width = a \div isl.width /\ Abs(b - a) = 1
        \/ b % isl.width = a % isl.width /\ Abs(b - a) = isl.width}

IslLand == {a \in IslCells : isl.heightmap[a] >= isl.coastThreshold}

\* the land cells joined to the cells of S by steps over land
RECURSIVE LandAround(_)
LandAround(S) ==
    LET more == S \cup {b \in IslLand : \E a \in S : b \in Beside(a)}
    IN  IF more = S THEN S ELSE LandAround(more)

\* for each cell, the cells that a 4-connected path of land cells links it to
Linked == [a \in IslCells |-> IF a \in IslLand THEN LandAround({a}) ELSE {}]

\* the first cell, in scan order, of the island id
FirstCell(id) == CHOOSE a \in IslCells :
                    /\ isl.islandIds[a] = id
                    /\ \A b \in IslCells : isl.islandIds[b] = id => a <= b

\* C13: labelIslands gives two cells the same non-negative island id exactly when a
\* 4-connected path of cells at or above the coast threshold links them; water cells
\* keep -1; the ids are 0, 1, 2, ... in scan order; islandAreas[id] is the number of
\* cells labelled id, so the areas add up to the number of labelled cells.
C13_IslandsAreLandComponents ==
    isl.pc = "done" =>
        LET ids == {isl.islandIds[a] : a \in IslCells} \ {0 - 1}
            linked == Tabulated(Linked)
            count == [id \in ids |-> Cardinality({a \in IslCells : isl.islandIds[a] = id})]
        IN  /\ \A a \in IslCells, b \in IslCells :
                  (isl.islandIds[a] >= 0 /\ isl.islandIds[a] = isl.islandIds[b])
                      <=> b \in linked[a]
            /\ \A a \in IslCells \ IslLand : isl.islandIds[a] = 0 - 1
            /\ ids = 0..(Len(isl.islandAreas) - 1)
            /\ \A i \in ids, j \in ids : i < j => FirstCell(i) < FirstCell(j)
            /\ \A id \in ids : isl.islandAreas[id + 1] = count[id]
            /\ SetSum(ids, count) = Cardinality({a \in IslCells : isl.islandIds[a] >= 0})

\* a labelled map with water, an island of several cells that bends, and a later island
C13_Witness ==
    /\ isl.pc = "done"
    /\ Len(isl.islandAreas) >= 2
    /\ isl.islandAreas[1] >= 3
    /\ IslLand # IslCells
    /\ \E a \in IslCells, b \in IslCells :
          /\ isl.islandIds[a] = 0 /\ isl.islandIds[b] = 0
          /\ a % isl.width # b % isl.width
          /\ a \div isl.width # b \div isl.width

----------------------------------------------------------------------------
(* Properties of the settlement sampling *)

\* C14: every two distinct settlements that SettlementGenerator.generate has placed
\* are at Euclidean distance >= minDistance, for minDistance > 0: the 3 x 3 bucket
\* scan misses no settlement that is closer, at the map borders included.
C14_SettlementsApart ==
    place.pc # "idle" =>
        \A i \in 1..Len(place.settlements), j \in 1..Len(place.settlements) :
            i # j => DistSq(place.settlements[i], place.settlements[j])
                         >= place.minDistance * place.minDistance

\* generate returned settlements in the first column, the last column and the last
\* row, with buckets of 2.5 pixels, after turning a candidate down
C14_Witness ==
    /\ place.pc = "done"
    /\ place.minDistance = 5
    /\ place.rejected > 0
    /\ Len(place.settlements) >= 2
    /\ place.settlements[1].x = 1
    /\ \E i \in 1..Len(place.settlements) :
          place.settlements[i].x = 2 * place.width - 1
    /\ \E i \in 1..Len(place.settlements) :
          place.settlements[i].y = 2 * place.height - 1

\* C29: for every maxSettlements >= 0 generate never returns more than
\* maxSettlements settlements, and when it returns exactly maxSettlements (one or
\* more) it stopped scanning at the cell where that count was reached: the last
\* settlement stands in the cell the scan is at, and no later cell was visited.
C29_NeverMoreThanMaxSettlements ==
    place.pc = "done" =>
        /\ Len(place.settlements) <= place.maxSettlements
        /\ (Len(place.settlements) = place.maxSettlements /\ place.maxSettlements > 0)
             => /\ place.y < place.height
                /\ place.settlements[Len(place.settlements)].x = 2 * place.x + 1
                /\ place.settlements[Len(place.settlements)].y = 2 * place.y + 1

----------------------------------------------------------------------------
(* Properties of the world build *)

\* n times the step
RECURSIVE Times(_, _)
Times(n, step) == IF n = 0 THEN <<>> ELSE <<step>> \o Times(n - 1, step)

IsPrefix(s, t) == Len(s) <= Len(t) /\ \A i \in 1..Len(s) : s[i] = t[i]

\* the steps with a contrast stretch on both sides of the erosion passes
StepsWithTwoStretches(iterations) ==
    <<"noise", "contrast">> \o Times(iterations, "erosion")
        \o <<"contrast", "islands", "settlements", "roads", "classification">>

\* the steps with the one contrast stretch after the erosion passes
StepsWithOneStretch(iterations) ==
    <<"noise">> \o Times(iterations, "erosion")
        \o <<"contrast", "islands", "settlements", "roads", "classification">>

\* every product was computed from the finished products before it
ConsumesFinished ==
    /\ build.islands = <<[heightmap |-> build.heightmap]>>
    /\ build.settlements = <<[heightmap |-> build.heightmap, islands |-> build.islands]>>
    /\ build.roads = <<[heightmap |-> build.heightmap,
                        settlements |-> build.settlements]>>
    /\ build.classes = <<[settlements |-> build.settlements, roads |-> build.roads]>>

----------------------------------------------------------------------------
(* Properties of the player's travel *)

\* C21: a travel request made while the marker is moving preempts the one under
\* way: at most one movement driver is registered on the ticker at any moment,
\* the arrival callback of a preempted request is never invoked, and
\* currentSettlementIndex is only ever set by the arrival of the most recent
\* request, to that request's target.
C21_NewRequestPreempts ==
    /\ [](mv.pc = "play"
          => /\ Cardinality(mv.ticker) <= 1
             /\ \A i \in 1..Len(mv.arrived) : mv.arrived[i] \notin mv.preempted)
    /\ [][(mv.pc = "play"
           /\ (\/ mv'.arrived # mv.arrived
               \/ mv'.currentSettlementIndex # mv.currentSettlementIndex))
            => /\ mv'.arrived = Append(mv.arrived, mv'.latest)
               /\ mv'.currentSettlementIndex = mv'.targets[mv'.latest]]_vars

\* C22: a frame rendered while totalDays cannot change (the time speed is 0, or
\* the world is not running) leaves the marker's position, the segment index and
\* the travelled distance as they were and invokes no arrival callback.
C22_NoTravelWhileTimeStands ==
    [][(/\ mv.pc = "play"
        /\ timeSpeed = PAUSED \/ ~isRunning
        /\ \E deltaMS \in FrameMs : frame(deltaMS))
        => /\ mv'.pos = mv.pos
           /\ mv'.segmentIndex = mv.segmentIndex
           /\ mv'.traveledDistance = mv.traveledDistance
           /\ mv'.arrived = mv.arrived]_vars

----------------------------------------------------------------------------
(* Properties of the flow accumulation *)

\* the cells from which the flow directions lead into S
RECURSIVE LeadingTo(_, _)
LeadingTo(S, flowDirection) ==
    LET more == S \cup {d \in DOMAIN flowDirection : flowDirection[d] \in S}
    IN  IF more = S THEN S ELSE LeadingTo(more, flowDirection)

\* the cells upstream of cell c: those whose direction points at c, and those
\* upstream of them
Upstream(c, flowDirection) ==
    LeadingTo({d \in DOMAIN flowDirection : flowDirection[d] = c}, flowDirection)

\* C24: in a pass, when the accumulation loop comes to a cell, every cell upstream
\* of it in the D8 routing has been processed, whatever order the sort gave to the
\* cells of one height; the flow of every cell ends as rainfall * (1 + the number
\* of the cells upstream of it), and no cell is upstream of itself.
C24_UpstreamProcessedFirst ==
    /\ (ero.pc = "flow" /\ ero.i < EroSize)
        => Upstream(ero.order[ero.i + 1], ero.flowDirection)
              \subseteq {ero.order[j] : j \in 1..ero.i}
    /\ ero.pc = "done"
        => \A c \in 0..(EroSize - 1) :
              /\ ero.flow[c]
                    = ero.rainfall * (1 + Cardinality(Upstream(c, ero.flowDirection)))
              /\ c \notin Upstream(c, ero.flowDirection)

\* a pass over a heightmap with two cells of one height, the lower-numbered one
\* sorted last, and a cell that has collected the flow of three cells upstream
C24_Witness ==
    /\ ero.pc = "done"
    /\ \E j \in 1..(EroSize - 1) :
          /\ ero.heightmap[ero.order[j]] = ero.heightmap[ero.order[j + 1]]
          /\ ero.order[j] > ero.order[j + 1]
    /\ \E c \in 0..(EroSize - 1) :
          /\ Cardinality(Upstream(c, ero.flowDirection)) >= 3
          /\ \E d \in Upstream(c, ero.flowDirection) : ero.flowDirection[d] # c

=========================================================================
